---------------------------- MODULE Spec2Model ----------------------------
(***************************************************************************)
(* Examples of golang-mini-projects.md and main.go:                        *)
(*   - the Worker Pool mini-project (section 12), lines 2356-2435          *)
(*   - the Rate Limiter mini-project (section 13), lines 2539-2607         *)
(*   - the URL Shortener mini-project, lines 589-704                       *)
(*   - the Task Manager (lines 129-188), ScrapeConcurrent (263-313), the   *)
(*     Library (857-895) and the REST server's createArticle (2846-2896)   *)
(*   - the Account of main.go, lines 54-113                                *)
(*   - NewGitRepository of basics/git.go, lines 18-54                      *)
(* Each example is a state machine of its own; a specification of one      *)
(* example leaves the variables of the others at their idle values.        *)
(***************************************************************************)
EXTENDS Integers, Sequences, FiniteSets, TLC

\* ------------------------------------------------------------------ bounds
\* largest numWorkers passed to NewWorkerPool
MaxWorkers == 2
\* largest number of jobs main submits (the bound of its for loop)
MaxJobs == 3
\* the single-worker runs that fill the result channel submit between
\* ResultsCap - MaxOver and ResultsCap + MaxOver jobs
MaxOver == 1
\* largest maxRequests passed to NewRateLimiter
MaxRequests == 2
\* largest window passed to NewRateLimiter, in clock ticks
MaxWindow == 2
\* last clock value
MaxTime == 3
\* largest number of goroutines calling Allow()
MaxCallers == 2
\* largest number of Allow() calls in a run
MaxCalls == 4
\* largest initialBalance passed to NewAccount (the smallest is -1)
MaxBalance == 2
\* largest amount passed to AddIncome / AddExpense (the smallest is -1)
MaxAmount == 2
\* largest number of AddIncome / AddExpense calls in a run
MaxAcctCalls == 3
\* largest length of the repositoryformatversion string
MaxVersionLen == 2
\* largest number of concurrent POST /articles requests
MaxPosts == 3
\* largest number of AddBook calls in a run
MaxBooks == 2
\* largest book ID
MaxBookID == 2
\* largest number of BorrowBook and ReturnBook calls in a run
MaxLibCalls == 3
\* largest number of AddTask calls in a run
MaxTasks == 3
\* largest number of UpdateStatus calls in a run
MaxUpdates == 2
\* largest number of URLs passed to ScrapeConcurrent
MaxScrapeURLs == 3
\* largest maxConcurrent passed to ScrapeConcurrent
MaxConcurrent == 2
\* number of different long URLs passed to Shorten
MaxURLs == 2
\* number of different short codes generateShortCode can return
MaxCodes == 2
\* largest number of goroutines using the URLShortener
MaxClients == 2
\* largest number of Shorten calls in a run
MaxShortens == 2
\* largest number of Click calls in a run
MaxClicks == 2

\* ------------------------------------------------------- program constants
\* make(chan Job, 100)
\* Priority: Low, Medium, High
Low == 0
Medium == 1
High == 2
\* Status: Todo, InProgress, Done
Todo == 0
InProgress == 1
Done == 2
JobsCap == 100
\* make(chan Result, 100)
ResultsCap == 100

VARIABLES
    \* ---- Git
    gitForce,       \* the argument force
    gitDirIsDir,    \* isDir(path/.git)
    configStat,     \* os.Stat of path/.git/config: ok or err
    configLoads,    \* ini.Load succeeds on the config file
    versionStr,     \* the value of core.repositoryformatversion, empty when the key is missing
    gitPc,          \* position of NewGitRepository
    gitConf,        \* repo.Conf: nil or cfg
    gitRet,         \* what NewGitRepository returned
    nilConfRead,    \* history: repo.Conf was read while nil
    \* ---- Server
    articles,       \* s.articles: ID -> Article
    srvMu,          \* s.mu: the request holding the write lock, or 0
    srvNextID,      \* s.nextID
    numPosts,       \* number of POST /articles requests
    bodies,         \* the request bodies: well-formed JSON or not
    rpc,            \* position of each request
    rarticle,       \* the local variable article of each request
    \* ---- Library
    Books,          \* lib.Books
    libAdds,        \* number of AddBook calls so far
    libCalls,       \* number of BorrowBook and ReturnBook calls so far
    openLoans,      \* history: the ids borrowed with success and no ReturnBook(id) since
    borrows,        \* history: per id, the BorrowBook calls that returned nil
    libLast,        \* history: the last call, its result and the state before it
    \* ---- Tasks
    tasks,          \* tm.tasks
    count,          \* tm.count
    tmAdds,         \* number of AddTask calls so far
    tmUpdates,      \* number of UpdateStatus calls so far
    tmLast,         \* history: the last call, its result and the tasks before it
    \* ---- Scraper
    urls,           \* the list of URLs passed to ScrapeConcurrent
    maxConcurrent,  \* the capacity of the semaphore channel
    semaphore,      \* the tokens buffered in the semaphore channel
    scResults,      \* the pages buffered in the results channel
    scResultsClosed, \* close(results) has happened
    scWg,           \* the WaitGroup counter
    scNext,         \* number of URLs the for loop has started a goroutine for
    scMain,         \* position of ScrapeConcurrent itself
    spc,            \* position of each goroutine
    spage,          \* the page each goroutine fetched
    pages,          \* the slice ScrapeConcurrent builds and returns
    \* ---- WorkerPool
    numWorkers,     \* argument of NewWorkerPool
    numJobs,        \* number of jobs main submits (10 in the example)
    lateSubmit,     \* TRUE: the caller issues one more Submit after Close()
    jobs,           \* wp.jobs: buffered channel, a FIFO of Job
    jobsClosed,     \* close(wp.jobs) has happened
    results,        \* wp.results: buffered channel, a FIFO of Result
    resultsClosed,  \* close(wp.results) has happened
    wg,             \* wp.wg counter
    wpc,            \* position of each worker goroutine
    hand,           \* the job / result a worker holds between receive and send
    mainpc,         \* position of the main goroutine
    nextJob,        \* loop variable i of main
    received,       \* results main has read from Results()
    submitLog,      \* history: one record per Submit call
    takes,          \* history: <<worker, job id>> per receive from wp.jobs
    atClose,        \* history: the jobs buffered in wp.jobs when Close() closed it
    \* ---- RateLimiter
    maxRequests,    \* rl.maxRequests
    window,         \* rl.window
    requests,       \* rl.requests: timestamps, oldest first
    mu,             \* rl.mu: the goroutine holding it, or Unlocked
    clock,          \* what time.Now() returns at this moment
    numCallers,     \* number of goroutines that call Allow()
    gpc,            \* position of each caller inside Allow()
    gnow,           \* local variable now of each caller
    gret,           \* value the caller's current Allow() returns
    calls,          \* number of Allow() calls started so far
    callLog,        \* history: one record per decided Allow() call
    refRequests,    \* state of the reference full-pass sliding-window counter
    \* ---- Account (finance tracker)
    initialBalance, \* argument of NewAccount
    Balance,        \* a.Balance
    Transactions,   \* a.Transactions
    nextID,         \* a.nextID
    acctCalls,      \* number of AddIncome / AddExpense calls so far
    lastCall,       \* history: the last call, its result and the state before it
    \* ---- URLShortener
    codeOf,         \* generateShortCode, as a function of the long URL
    urlMap,         \* us.urlMap: short -> long
    reverseMap,     \* us.reverseMap: long -> short
    stats,          \* us.stats: short -> hits
    usWriter,       \* us.mu: the client holding the write lock, or 0
    usReaders,      \* us.mu: the clients holding the read lock
    numClients,     \* number of goroutines using the shortener
    cpc,            \* position of each client
    cop,            \* the call each client is in: [op, arg]
    clocal,         \* Click: the value of us.stats[shortURL] read for the ++
    cret,           \* the value the client's call is about to return
    shortens,       \* number of Shorten calls started so far
    clicks,         \* number of Click calls started so far
    clicksOk        \* history: per code, the Click calls that returned nil
                    \* since Shorten created the code's stats entry

poolVars == <<numWorkers, numJobs, lateSubmit, jobs, jobsClosed, results,
              resultsClosed, wg, wpc, hand, mainpc, nextJob, received,
              submitLog, takes, atClose>>

limiterVars == <<maxRequests, window, requests, mu, clock, numCallers, gpc,
                 gnow, gret, calls, callLog, refRequests>>

accountVars == <<initialBalance, Balance, Transactions, nextID, acctCalls,
                 lastCall>>

shortenerVars == <<codeOf, urlMap, reverseMap, stats, usWriter, usReaders,
                   numClients, cpc, cop, clocal, cret, shortens, clicks,
                   clicksOk>>

scraperVars == <<urls, maxConcurrent, semaphore, scResults,
                 scResultsClosed, scWg, scNext, scMain, spc, spage, pages>>

tasksVars == <<tasks, count, tmAdds, tmUpdates, tmLast>>

libraryVars == <<Books, libAdds, libCalls, openLoans, borrows, libLast>>

serverVars == <<articles, srvMu, srvNextID, numPosts, bodies, rpc, rarticle>>

gitVars == <<gitForce, gitDirIsDir, configStat, configLoads, versionStr,
             gitPc, gitConf, gitRet, nilConfRead>>

vars == <<poolVars, limiterVars, accountVars, shortenerVars, scraperVars,
          tasksVars, libraryVars, serverVars, gitVars>>

\* what the steps of one example leave alone: the other examples
otherThanPool == <<limiterVars, accountVars, shortenerVars, scraperVars,
                   tasksVars, libraryVars, serverVars, gitVars>>

otherThanLimiter == <<poolVars, accountVars, shortenerVars, scraperVars,
                      tasksVars, libraryVars, serverVars, gitVars>>

otherThanAccount == <<poolVars, limiterVars, shortenerVars, scraperVars,
                      tasksVars, libraryVars, serverVars, gitVars>>

otherThanShortener == <<poolVars, limiterVars, accountVars, scraperVars,
                        tasksVars, libraryVars, serverVars, gitVars>>

otherThanScraper == <<poolVars, limiterVars, accountVars, shortenerVars,
                      tasksVars, libraryVars, serverVars, gitVars>>

otherThanTasks == <<poolVars, limiterVars, accountVars, shortenerVars,
                    scraperVars, libraryVars, serverVars, gitVars>>

otherThanLibrary == <<poolVars, limiterVars, accountVars, shortenerVars,
                      scraperVars, tasksVars, serverVars, gitVars>>

otherThanServer == <<poolVars, limiterVars, accountVars, shortenerVars,
                     scraperVars, tasksVars, libraryVars, gitVars>>

otherThanGit == <<poolVars, limiterVars, accountVars, shortenerVars,
                  scraperVars, tasksVars, libraryVars, serverVars>>

\* value of rl.mu when no goroutine holds it
Unlocked == -1

\* the rate limiter is not in use
LimiterIdle ==
    /\ maxRequests = 0
    /\ window = 0
    /\ requests = <<>>
    /\ mu = Unlocked
    /\ clock = 0
    /\ numCallers = 0
    /\ gpc = <<>>
    /\ gnow = <<>>
    /\ gret = <<>>
    /\ calls = 0
    /\ callLog = <<>>
    /\ refRequests = <<>>

\* no call has been made on the account yet
NoCall == [op |-> "none"]

\* float64, the type of Balance and of every amount.  The finite values of
\* the model are small integers, on which float64 arithmetic is exact; NaN
\* and the two infinities are the values of the type that are not numbers.
Fin(n) == [k |-> "fin", v |-> n]

NaN == [k |-> "nan", v |-> 0]

PosInf == [k |-> "inf", v |-> 1]

NegInf == [k |-> "inf", v |-> -1]

\* a < b on float64: false as soon as one side is NaN
FLess(a, b) ==
    IF a.k = "nan" \/ b.k = "nan" THEN FALSE
    ELSE IF a.k = "inf" THEN a.v = -1 /\ b # NegInf
    ELSE IF b.k = "inf" THEN b.v = 1
    ELSE a.v < b.v

\* a == b on float64: NaN equals nothing, itself included
FEq(a, b) == a.k # "nan" /\ b.k # "nan" /\ a = b

\* a <= b on float64
FLe(a, b) == FLess(a, b) \/ FEq(a, b)

\* a > b on float64
FGt(a, b) == FLess(b, a)

\* a >= b on float64
FGe(a, b) == FLe(b, a)

\* a + b on float64
FAdd(a, b) ==
    IF a.k = "nan" \/ b.k = "nan" THEN NaN
    ELSE IF a.k = "inf" /\ b.k = "inf" THEN (IF a.v = b.v THEN a ELSE NaN)
    ELSE IF a.k = "inf" THEN a
    ELSE IF b.k = "inf" THEN b
    ELSE Fin(a.v + b.v)

\* -a on float64
FNeg(a) == IF a.k = "nan" THEN NaN ELSE [k |-> a.k, v |-> 0 - a.v]

\* a - b on float64
FSub(a, b) == FAdd(a, FNeg(b))

\* the finance tracker is not in use
AccountIdle ==
    /\ initialBalance = Fin(0)
    /\ Balance = Fin(0)
    /\ Transactions = <<>>
    /\ nextID = 1
    /\ acctCalls = 0
    /\ lastCall = NoCall

\* make(map[...]...): a map without entries
EmptyMap == <<>>

\* no call in progress
NoOp == [op |-> "none"]

\* the URL shortener is not in use
ShortenerIdle ==
    /\ codeOf = EmptyMap
    /\ urlMap = EmptyMap
    /\ reverseMap = EmptyMap
    /\ stats = EmptyMap
    /\ usWriter = 0
    /\ usReaders = {}
    /\ numClients = 0
    /\ cpc = <<>>
    /\ cop = <<>>
    /\ clocal = <<>>
    /\ cret = <<>>
    /\ shortens = 0
    /\ clicks = 0
    /\ clicksOk = EmptyMap

\* the web scraper is not in use
ScraperIdle ==
    /\ urls = <<>>
    /\ maxConcurrent = 0
    /\ semaphore = <<>>
    /\ scResults = <<>>
    /\ scResultsClosed = FALSE
    /\ scWg = 0
    /\ scNext = 0
    /\ scMain = "idle"
    /\ spc = <<>>
    /\ spage = <<>>
    /\ pages = <<>>

\* the task manager is not in use
TasksIdle ==
    /\ tasks = <<>>
    /\ count = 0
    /\ tmAdds = 0
    /\ tmUpdates = 0
    /\ tmLast = NoCall

\* the library is not in use
LibraryIdle ==
    /\ Books = <<>>
    /\ libAdds = 0
    /\ libCalls = 0
    /\ openLoans = {}
    /\ borrows = <<>>
    /\ libLast = NoCall

\* the REST server is not in use
ServerIdle ==
    /\ articles = EmptyMap
    /\ srvMu = 0
    /\ srvNextID = 1
    /\ numPosts = 0
    /\ bodies = <<>>
    /\ rpc = <<>>
    /\ rarticle = <<>>

\* NewGitRepository is not in use
GitIdle ==
    /\ gitForce = FALSE
    /\ gitDirIsDir = FALSE
    /\ configStat = "err"
    /\ configLoads = FALSE
    /\ versionStr = <<>>
    /\ gitPc = "idle"
    /\ gitConf = "nil"
    /\ gitRet = NoCall
    /\ nilConfRead = FALSE

\* ------------------------------------------------------------- WorkerPool

NoJob == [ID |-> -1, Data |-> <<>>]

\* fmt.Sprintf("task%d", i)
Sprintf(i) == <<"task", i>>

\* Job{ID: i, Data: fmt.Sprintf("task%d", i)}
Job(i) == [ID |-> i, Data |-> Sprintf(i)]

WorkersOneMore == 0 .. numWorkers

\* the goroutines started by for i := 0; i < numWorkers; i++ { go wp.worker(i) }
Workers == 0 .. (numWorkers - 1)

ProcessNoSuffix(job) == [JobID |-> job.ID, Data |-> job.Data]

ProcessSameID(job) == [JobID |-> 0, Data |-> job.Data \o <<" processed">>]

\* the body of the worker's loop: the Result built from a job
Process(job) == [JobID |-> job.ID, Data |-> job.Data \o <<" processed">>]

RangeNextKeep(ch) == ch

\* what `for job := range ch` leaves in the channel after taking a value
RangeNext(ch) == Tail(ch)

SendOutcomeNeverPanics(closed) == "ok"

\* a send on a channel: it panics when the channel is closed
SendOutcome(closed) == IF closed THEN "panic" ELSE "ok"

\* a buffered channel that takes one value more than its capacity
CanSendOverCap(ch, cap) == Len(ch) <= cap

CanSendAlways(ch, cap) == TRUE

\* a send on an open buffered channel proceeds only while the buffer has room
CanSend(ch, cap) == Len(ch) < cap

RangeEndsOnEmpty(ch, closed) == ch = <<>>

\* `for x := range ch` ends when the channel is closed and drained
RangeEnds(ch, closed) == closed /\ ch = <<>>

WaitDoneAlways == TRUE

\* wp.wg.Wait() returns when the counter is zero
WaitDone == wg = 0

InitPoolWith(W, J, L) ==
    /\ numWorkers \in W
    /\ numJobs \in J
    /\ lateSubmit \in L
    /\ jobs = <<>>
    /\ jobsClosed = FALSE
    /\ results = <<>>
    /\ resultsClosed = FALSE
    /\ wg = numWorkers
    /\ wpc = [w \in Workers |-> "range"]
    /\ hand = [w \in Workers |-> NoJob]
    /\ mainpc = "submit"
    /\ nextJob = 0
    /\ received = <<>>
    /\ submitLog = <<>>
    /\ takes = <<>>
    /\ atClose = <<>>

\* NewWorkerPool(numWorkers) has returned; main is about to start its loop
InitPool ==
    /\ InitPoolWith(1 .. MaxWorkers, 0 .. MaxJobs, BOOLEAN)
    /\ LimiterIdle
    /\ AccountIdle
    /\ ShortenerIdle
    /\ ScraperIdle
    /\ TasksIdle
    /\ LibraryIdle
    /\ ServerIdle
    /\ GitIdle

\* the worker pool is not in use
PoolIdle == InitPoolWith({0}, {0}, {FALSE})

\* wp.Submit(job): wp.jobs <- job
Submit(job) ==
    LET out == SendOutcome(jobsClosed) IN
    /\ jobsClosed \/ CanSend(jobs, JobsCap)
    /\ submitLog' = Append(submitLog, [id |-> job.ID, closed |-> jobsClosed,
                                       outcome |-> out])
    /\ IF out = "panic"
         THEN /\ mainpc' = "panicked"
              /\ UNCHANGED jobs
         ELSE /\ jobs' = Append(jobs, job)
              /\ UNCHANGED mainpc

\* main: for i := 0; i < N; i++ { pool.Submit(Job{...}) }
MainSubmit ==
    /\ mainpc = "submit"
    /\ nextJob < numJobs
    /\ Submit(Job(nextJob))
    /\ nextJob' = nextJob + 1
    /\ UNCHANGED <<numWorkers, numJobs, lateSubmit, jobsClosed, results,
                   resultsClosed, wg, wpc, hand, received, takes>>
    /\ UNCHANGED <<atClose, otherThanPool>>

\* Close(): close(wp.jobs)
CloseJobs ==
    /\ mainpc = "submit"
    /\ nextJob = numJobs
    /\ jobsClosed' = TRUE
    /\ atClose' = jobs
    /\ mainpc' = "wait"
    /\ UNCHANGED <<numWorkers, numJobs, lateSubmit, jobs, results,
                   resultsClosed, wg, wpc, hand, nextJob, received,
                   submitLog, takes>>
    /\ UNCHANGED otherThanPool

\* Close(): wp.wg.Wait()
CloseWait ==
    /\ mainpc = "wait"
    /\ WaitDone
    /\ mainpc' = "closeResults"
    /\ UNCHANGED <<numWorkers, numJobs, lateSubmit, jobs, jobsClosed, results,
                   resultsClosed, wg, wpc, hand, nextJob, received,
                   submitLog, takes>>
    /\ UNCHANGED <<atClose, otherThanPool>>

\* Close(): close(wp.results); Close() returns
CloseResults ==
    /\ mainpc = "closeResults"
    /\ resultsClosed' = TRUE
    /\ mainpc' = "results"
    /\ UNCHANGED <<numWorkers, numJobs, lateSubmit, jobs, jobsClosed, results,
                   wg, wpc, hand, nextJob, received, submitLog, takes>>
    /\ UNCHANGED <<atClose, otherThanPool>>

\* main: for result := range pool.Results() -- one iteration
MainRecv ==
    /\ mainpc = "results"
    /\ results # <<>>
    /\ received' = Append(received, Head(results))
    /\ results' = RangeNext(results)
    /\ UNCHANGED <<numWorkers, numJobs, lateSubmit, jobs, jobsClosed,
                   resultsClosed, wg, wpc, hand, mainpc, nextJob,
                   submitLog, takes>>
    /\ UNCHANGED <<atClose, otherThanPool>>

\* main: the range over Results() ends: channel closed and drained
MainRangeEnd ==
    /\ mainpc = "results"
    /\ RangeEnds(results, resultsClosed)
    /\ mainpc' = "done"
    /\ UNCHANGED <<numWorkers, numJobs, lateSubmit, jobs, jobsClosed, results,
                   resultsClosed, wg, wpc, hand, nextJob, received,
                   submitLog, takes>>
    /\ UNCHANGED <<atClose, otherThanPool>>

\* a caller that calls Submit once more after Close() has returned
SubmitAfterClose ==
    /\ lateSubmit
    /\ mainpc = "results"
    /\ Submit(Job(nextJob))
    /\ nextJob' = nextJob + 1
    /\ UNCHANGED <<numWorkers, numJobs, lateSubmit, jobsClosed, results,
                   resultsClosed, wg, wpc, hand, received, takes>>
    /\ UNCHANGED <<atClose, otherThanPool>>

\* worker: for job := range wp.jobs -- receives a job and builds its Result
WorkerTake(w) ==
    /\ wpc[w] = "range"
    /\ jobs # <<>>
    /\ hand' = [hand EXCEPT ![w] = Head(jobs)]
    /\ jobs' = RangeNext(jobs)
    /\ takes' = Append(takes, <<w, Head(jobs).ID>>)
    /\ wpc' = [wpc EXCEPT ![w] = "send"]
    /\ UNCHANGED <<numWorkers, numJobs, lateSubmit, jobsClosed, results,
                   resultsClosed, wg, mainpc, nextJob, received, submitLog>>
    /\ UNCHANGED <<atClose, otherThanPool>>

\* worker: wp.results <- result
WorkerSend(w) ==
    /\ wpc[w] = "send"
    /\ resultsClosed \/ CanSend(results, ResultsCap)
    /\ IF SendOutcome(resultsClosed) = "panic"
         THEN /\ wpc' = [wpc EXCEPT ![w] = "panicked"]
              /\ UNCHANGED <<results, hand>>
         ELSE /\ results' = Append(results, Process(hand[w]))
              /\ hand' = [hand EXCEPT ![w] = NoJob]
              /\ wpc' = [wpc EXCEPT ![w] = "range"]
    /\ UNCHANGED <<numWorkers, numJobs, lateSubmit, jobs, jobsClosed,
                   resultsClosed, wg, mainpc, nextJob, received, submitLog,
                   takes>>
    /\ UNCHANGED <<atClose, otherThanPool>>

\* worker: the range ends (channel closed and drained); defer wp.wg.Done()
WorkerExit(w) ==
    /\ wpc[w] = "range"
    /\ RangeEnds(jobs, jobsClosed)
    /\ wpc' = [wpc EXCEPT ![w] = "exited"]
    /\ wg' = wg - 1
    /\ UNCHANGED <<numWorkers, numJobs, lateSubmit, jobs, jobsClosed, results,
                   resultsClosed, hand, mainpc, nextJob, received, submitLog,
                   takes>>
    /\ UNCHANGED <<atClose, otherThanPool>>

\* one step of worker goroutine w
WorkerStep(w) ==
    /\ w \in Workers
    /\ (WorkerTake(w) \/ WorkerSend(w) \/ WorkerExit(w))

\* the program of main(): submit, Close(), range over Results()
NextMain ==
    \/ MainSubmit
    \/ CloseJobs
    \/ CloseWait
    \/ CloseResults
    \/ MainRecv
    \/ MainRangeEnd
    \/ \E w \in Workers : WorkerTake(w)
    \/ \E w \in Workers : WorkerSend(w)
    \/ \E w \in Workers : WorkerExit(w)

NextPool == NextMain \/ SubmitAfterClose

SpecPool == InitPool /\ [][NextPool]_vars

\* main() as written (no Submit after Close), for small pools and for a
\* single worker with about as many jobs as the result channel holds
InitMain ==
    /\ \/ InitPoolWith(1 .. MaxWorkers, 0 .. MaxJobs, {FALSE})
       \/ InitPoolWith({1}, (ResultsCap - MaxOver) .. (ResultsCap + MaxOver),
                       {FALSE})
    /\ LimiterIdle
    /\ AccountIdle
    /\ ShortenerIdle
    /\ ScraperIdle
    /\ TasksIdle
    /\ LibraryIdle
    /\ ServerIdle
    /\ GitIdle

\* the Go scheduler runs every goroutine that is able to run
FairMain ==
    /\ WF_vars(MainSubmit \/ CloseJobs \/ CloseWait \/ CloseResults
                  \/ MainRecv \/ MainRangeEnd)
    /\ \A w \in 0 .. (MaxWorkers - 1) : WF_vars(WorkerStep(w))

SpecMainFair == InitMain /\ [][NextMain]_vars /\ FairMain

\* ------------------------------------------------- WorkerPool: properties

\* jobs accepted by Submit, in order
Accepted == SelectSeq(submitLog, LAMBDA e : e.outcome = "ok")

AcceptedIDs == {Accepted[k].id : k \in DOMAIN Accepted}

\* every Result that has been put on the result channel so far
Published == received \o results

\* number of places a job with this ID is held at
Holders(id) ==
      Cardinality({k \in DOMAIN jobs : jobs[k].ID = id})
    + Cardinality({w \in Workers : wpc[w] \in {"send", "panicked"} /\ hand[w].ID = id})
    + Cardinality({k \in DOMAIN Published : Published[k].JobID = id})

\* C1: once Close() has returned and main has read Results() to its end, it
\* has received exactly as many results as jobs were submitted, and every
\* submitted job ID appears in exactly one of them.
C1_ExactlyNResults ==
    mainpc = "done" =>
        /\ Len(Accepted) = numJobs
        /\ Len(received) = Len(Accepted)
        /\ \A id \in AcceptedIDs :
              Cardinality({k \in DOMAIN received : received[k].JobID = id}) = 1
        /\ \A k \in DOMAIN received : received[k].JobID \in AcceptedIDs

\* C1 witness: two workers, three jobs, all read, not in submission order
C1_Witness ==
    /\ mainpc = "done"
    /\ numWorkers >= 2
    /\ Len(received) >= 3
    /\ received[1].JobID # 0

\* C2: every accepted job is received from the job queue by at most one worker
\* and published as at most one result, and it is always held in exactly one
\* place (queue, a worker's hand, or a published result): nothing is dropped.
C2_ExactlyOnce ==
    /\ \A a, b \in DOMAIN takes : takes[a][2] = takes[b][2] => a = b
    /\ \A a, b \in DOMAIN Published :
          Published[a].JobID = Published[b].JobID => a = b
    /\ \A id \in AcceptedIDs : Holders(id) = 1
    /\ \A k \in DOMAIN takes : takes[k][2] \in AcceptedIDs
    /\ \A id \in AcceptedIDs :
          (\E k \in DOMAIN takes : takes[k][2] = id)
            <=> ~(\E k \in DOMAIN jobs : jobs[k].ID = id)

\* C2 witness: both workers hold a job at once while another waits in the queue
C2_Witness ==
    /\ numWorkers >= 2
    /\ \A w \in Workers : wpc[w] = "send"
    /\ jobs # <<>>
    /\ ~jobsClosed

\* C4: no worker sends on the closed result channel; once the result channel
\* is closed (Close() returns) every worker has terminated, the job queue is
\* empty and every accepted job's result has been put on the result channel.
C4_CloseAfterWorkers ==
    /\ \A w \in Workers : wpc[w] # "panicked"
    /\ resultsClosed =>
          /\ \A w \in Workers : wpc[w] = "exited"
          /\ wg = 0
          /\ jobs = <<>>
          /\ \A id \in AcceptedIDs :
                \E k \in DOMAIN Published : Published[k].JobID = id

\* C4 witness: Close() has just returned with all results still buffered
C4_Witness ==
    /\ resultsClosed
    /\ mainpc = "results"
    /\ numWorkers >= 2
    /\ Len(results) >= 3
    /\ received = <<>>

\* a job with this ID is nowhere in the pool and was never taken
Absent(id) ==
    /\ Holders(id) = 0
    /\ \A k \in DOMAIN takes : takes[k][2] # id

\* C10: a Submit issued while the job queue is open never fails; a Submit
\* issued after Close() closed the job queue panics, and its job is neither
\* enqueued nor processed.
C10_SubmitFailsOnlyWhenClosed ==
    /\ \A k \in DOMAIN submitLog :
          /\ ~submitLog[k].closed => submitLog[k].outcome = "ok"
          /\ submitLog[k].closed =>
                submitLog[k].outcome = "panic" /\ Absent(submitLog[k].id)
    /\ mainpc = "panicked" =>
          submitLog # <<>> /\ submitLog[Len(submitLog)].closed

\* C10 witness: accepted Submits followed by a Submit after Close() that panicked
C10_Witness ==
    /\ mainpc = "panicked"
    /\ Len(submitLog) >= 3
    /\ submitLog[1].outcome = "ok"
    /\ submitLog[Len(submitLog)].outcome = "panic"

\* C3 (as claimed): main always terminates -- Close() returns and the range
\* over Results() reaches its end
C3_MainTerminates == <>(mainpc = "done")

\* the deadlock: main waits in wg.Wait() while the worker waits to send its
\* result to the full result channel
C3_Deadlock ==
    /\ mainpc = "wait"
    /\ Len(results) = ResultsCap
    /\ \E w \in Workers : wpc[w] = "send"


\* the jobs some worker has received and not yet published
InProcess ==
    {id \in AcceptedIDs :
        /\ \E k \in DOMAIN takes : takes[k][2] = id
        /\ ~(\E k \in DOMAIN Published : Published[k].JobID = id)}

\* C11: the job queue never holds more than its capacity; while it is full
\* (and open) main's Submit cannot complete; every accepted job is in the
\* queue or has been received by a worker, and the queue holds the accepted,
\* not yet received jobs unaltered and in submission order.
C11_Backpressure ==
    LET ids    == AcceptedIDs
        queued == {jobs[k].ID : k \in DOMAIN jobs}
        taken  == {takes[k][2] : k \in DOMAIN takes}
    IN
    /\ Len(jobs) <= JobsCap
    /\ (Len(jobs) = JobsCap /\ ~jobsClosed) => ~ENABLED MainSubmit
    /\ ids \subseteq (queued \cup taken)
    /\ queued \subseteq ids
    /\ \A k \in DOMAIN jobs : jobs[k].Data = <<"task", jobs[k].ID>>
    /\ \A k \in 1 .. (Len(jobs) - 1) : jobs[k].ID < jobs[k + 1].ID

\* C11 witness: the queue was full with JobsCap jobs, a worker removed one,
\* and only then Submit put job number JobsCap + 1 in: the queue is full again
C11_Witness ==
    /\ Len(jobs) = JobsCap
    /\ Len(Accepted) = JobsCap + 1
    /\ Len(takes) = 1
    /\ mainpc = "submit"

\* C12: exactly numWorkers worker goroutines exist, from construction on, and
\* at most numWorkers jobs are in process (received, result not yet published).
C12_BoundedConcurrency ==
    /\ Cardinality(DOMAIN wpc) = numWorkers
    /\ wg + Cardinality({w \in DOMAIN wpc : wpc[w] = "exited"}) = numWorkers
    /\ \A k \in DOMAIN takes : takes[k][1] \in 0 .. (numWorkers - 1)
    /\ Cardinality(InProcess) <= numWorkers

\* C12 witness: as many jobs in process as there are workers, more jobs waiting
C12_Witness ==
    /\ numWorkers >= 2
    /\ Cardinality(InProcess) = numWorkers
    /\ Len(jobs) >= 1

\* C13: a worker that has exited found the job queue closed and empty; while
\* the queue is open no worker has exited; and when the last worker has
\* exited, every job that was buffered when Close() closed the queue has been
\* received by a worker and its result published.
C13_WorkerLifecycle ==
    /\ \A w \in DOMAIN wpc : wpc[w] = "exited" => jobsClosed /\ jobs = <<>>
    /\ ~jobsClosed => wg = numWorkers
    /\ (\A w \in DOMAIN wpc : wpc[w] = "exited") =>
          \A k \in DOMAIN atClose :
              /\ \E j \in DOMAIN takes : takes[j][2] = atClose[k].ID
              /\ \E j \in DOMAIN Published : Published[j].JobID = atClose[k].ID

\* C13 witness: all workers have exited and at least two jobs were still
\* buffered when Close() was called
C13_Witness ==
    /\ numWorkers >= 2
    /\ \A w \in DOMAIN wpc : wpc[w] = "exited"
    /\ Len(atClose) >= 2

\* the Result the example must produce for the job with this ID
ExpectedResult(id) == [JobID |-> id, Data |-> <<"task", id, " processed">>]

\* C19: every published Result is the one determined by its job alone (the
\* job's ID, the job's Data followed by " processed"), no worker fails, and
\* after the drain the set of results is the same whatever the interleaving.
C19_PureProcessing ==
    /\ \A k \in DOMAIN Published :
          /\ Published[k].JobID \in AcceptedIDs
          /\ Published[k] = ExpectedResult(Published[k].JobID)
    /\ \A w \in DOMAIN wpc : wpc[w] \in {"range", "send", "exited"}
    /\ mainpc = "done" =>
          {received[k] : k \in DOMAIN received}
             = {ExpectedResult(id) : id \in AcceptedIDs}

\* C19 witness: both workers handled jobs, and the results came out of order
C19_Witness ==
    /\ mainpc = "done"
    /\ \E k \in DOMAIN takes : takes[k][1] = 0
    /\ \E k \in DOMAIN takes : takes[k][1] = 1
    /\ Len(received) >= 3
    /\ received[1].JobID > received[2].JobID

\* ------------------------------------------------------------ RateLimiter

Callers == 1 .. numCallers

InWindowExclusive(now, t) == now - t < window

\* now.Sub(t) <= rl.window
InWindow(now, t) == now - t <= window

ValidIdxPastFirst(reqs, now) ==
    LET valid == {i \in DOMAIN reqs : InWindow(now, reqs[i])} IN
    IF valid = {} THEN 0
    ELSE CHOOSE i \in valid : \A j \in valid : i <= j

\* the loop of Allow(): validIdx is the (0-based) index of the first
\* timestamp still inside the window, and stays 0 when there is none
ValidIdx(reqs, now) ==
    LET valid == {i \in DOMAIN reqs : InWindow(now, reqs[i])} IN
    IF valid = {} THEN 0
    ELSE (CHOOSE i \in valid : \A j \in valid : i <= j) - 1

\* rl.requests[validIdx:]
SliceFrom(reqs, idx) == SubSeq(reqs, idx + 1, Len(reqs))

BelowQuotaOffByOne(n) == n <= maxRequests

BelowQuotaIgnored(n) == TRUE

\* len(rl.requests) < rl.maxRequests
BelowQuota(n) == n < maxRequests

TryLockIgnoresOwner == TRUE

\* rl.mu.Lock() can proceed
TryLock == mu = Unlocked

\* reference: a full-pass filter keeping exactly the timestamps in the window
RefFilter(reqs, now) == SelectSeq(reqs, LAMBDA t : InWindow(now, t))

\* NewRateLimiter(maxRequests, window) has returned; the clock reads 0
InitLimiter ==
    /\ maxRequests \in 0 .. MaxRequests
    /\ window \in 1 .. MaxWindow
    /\ requests = <<>>
    /\ mu = Unlocked
    /\ clock = 0
    /\ numCallers \in 1 .. MaxCallers
    /\ gpc = [g \in Callers |-> "idle"]
    /\ gnow = [g \in Callers |-> 0]
    /\ gret = [g \in Callers |-> FALSE]
    /\ calls = 0
    /\ callLog = <<>>
    /\ refRequests = <<>>
    /\ PoolIdle
    /\ AccountIdle
    /\ ShortenerIdle
    /\ ScraperIdle
    /\ TasksIdle
    /\ LibraryIdle
    /\ ServerIdle
    /\ GitIdle

\* time passes
Tick ==
    /\ clock < MaxTime
    /\ clock' = clock + 1
    /\ UNCHANGED <<maxRequests, window, requests, mu, numCallers, gpc, gnow,
                   gret, calls, callLog, refRequests>>
    /\ UNCHANGED otherThanLimiter

\* goroutine g calls rl.Allow()
AllowCall(g) ==
    /\ gpc[g] = "idle"
    /\ calls < MaxCalls
    /\ calls' = calls + 1
    /\ gpc' = [gpc EXCEPT ![g] = "lock"]
    /\ UNCHANGED <<maxRequests, window, requests, mu, clock, numCallers, gnow,
                   gret, callLog, refRequests>>
    /\ UNCHANGED otherThanLimiter

\* rl.mu.Lock()
AllowLock(g) ==
    /\ gpc[g] = "lock"
    /\ TryLock
    /\ mu' = g
    /\ gpc' = [gpc EXCEPT ![g] = "now"]
    /\ UNCHANGED <<maxRequests, window, requests, clock, numCallers, gnow,
                   gret, calls, callLog, refRequests>>
    /\ UNCHANGED otherThanLimiter

\* now := time.Now()
AllowNow(g) ==
    /\ gpc[g] = "now"
    /\ gnow' = [gnow EXCEPT ![g] = clock]
    /\ gpc' = [gpc EXCEPT ![g] = "trim"]
    /\ UNCHANGED <<maxRequests, window, requests, mu, clock, numCallers, gret,
                   calls, callLog, refRequests>>
    /\ UNCHANGED otherThanLimiter

\* the validIdx loop and rl.requests = rl.requests[validIdx:]
AllowTrim(g) ==
    /\ gpc[g] = "trim"
    /\ requests' = SliceFrom(requests, ValidIdx(requests, gnow[g]))
    /\ gpc' = [gpc EXCEPT ![g] = "check"]
    /\ UNCHANGED <<maxRequests, window, mu, clock, numCallers, gnow, gret,
                   calls, callLog, refRequests>>
    /\ UNCHANGED otherThanLimiter

\* if len(rl.requests) < rl.maxRequests: the call is decided here.  The
\* reference counter decides the same call on its own state.
AllowCheck(g) ==
    LET ok      == BelowQuota(Len(requests))
        refKept == RefFilter(refRequests, gnow[g])
        refOk   == Len(refKept) < maxRequests
    IN
    /\ gpc[g] = "check"
    /\ gret' = [gret EXCEPT ![g] = ok]
    /\ gpc' = [gpc EXCEPT ![g] = IF ok THEN "append" ELSE "unlock"]
    /\ callLog' = Append(callLog,
          [t |-> gnow[g], ok |-> ok, ref |-> refOk,
           live |-> Len(RefFilter(requests, gnow[g])),
           stale |-> Len(requests) - Len(RefFilter(requests, gnow[g]))])
    /\ refRequests' = IF refOk THEN Append(refKept, gnow[g]) ELSE refKept
    /\ UNCHANGED <<maxRequests, window, requests, mu, clock, numCallers, gnow,
                   calls>>
    /\ UNCHANGED otherThanLimiter

\* rl.requests = append(rl.requests, now); return true
AllowAppend(g) ==
    /\ gpc[g] = "append"
    /\ requests' = Append(requests, gnow[g])
    /\ gpc' = [gpc EXCEPT ![g] = "unlock"]
    /\ UNCHANGED <<maxRequests, window, mu, clock, numCallers, gnow, gret,
                   calls, callLog, refRequests>>
    /\ UNCHANGED otherThanLimiter

\* defer rl.mu.Unlock(); Allow() returns gret[g]
AllowUnlock(g) ==
    /\ gpc[g] = "unlock"
    /\ mu' = Unlocked
    /\ gpc' = [gpc EXCEPT ![g] = "idle"]
    /\ UNCHANGED <<maxRequests, window, requests, clock, numCallers, gnow,
                   gret, calls, callLog, refRequests>>
    /\ UNCHANGED otherThanLimiter

NextLimiter ==
    \/ Tick
    \/ \E g \in Callers : AllowCall(g)
    \/ \E g \in Callers : AllowLock(g)
    \/ \E g \in Callers : AllowNow(g)
    \/ \E g \in Callers : AllowTrim(g)
    \/ \E g \in Callers : AllowCheck(g)
    \/ \E g \in Callers : AllowAppend(g)
    \/ \E g \in Callers : AllowUnlock(g)

SpecLimiter == InitLimiter /\ [][NextLimiter]_vars

\* ------------------------------------------------ RateLimiter: properties

\* the admitted calls whose timestamp lies in the window that ends at T
AdmittedInWindow(T) ==
    {k \in DOMAIN callLog :
        callLog[k].ok /\ callLog[k].t <= T /\ InWindow(T, callLog[k].t)}

\* the admitted calls before call k
AdmittedBefore(k) == {j \in 1 .. (k - 1) : callLog[j].ok}

\* C5: for every instant T, at most maxRequests admitted calls have their
\* timestamp in the trailing window of length window that ends at T.
C5_QuotaPerWindow ==
    \A T \in 0 .. MaxTime : Cardinality(AdmittedInWindow(T)) <= maxRequests

\* C5 witness: the quota is used up inside one window, a call in it is
\* rejected, and an earlier admitted call has already left the window
C5_Witness ==
    /\ maxRequests >= 2
    /\ Cardinality(AdmittedInWindow(clock)) = maxRequests
    /\ \E k \in DOMAIN callLog : ~callLog[k].ok /\ callLog[k].t = clock
    /\ \E k \in DOMAIN callLog : callLog[k].ok /\ ~InWindow(clock, callLog[k].t)

\* C6 (as claimed): Allow() decides on the unexpired timestamps alone -- it
\* admits iff fewer than maxRequests recorded timestamps are still in the
\* window -- and so returns what the reference full-pass counter returns.
C6_MatchesReference ==
    \A k \in DOMAIN callLog :
        /\ callLog[k].ok <=> (callLog[k].live < maxRequests)
        /\ callLog[k].ok = callLog[k].ref

\* C6: the state the claim is wrong about: a call decided with every
\* recorded timestamp expired and none of them discarded
C6_StaleKept ==
    \E k \in DOMAIN callLog :
        /\ callLog[k].stale = maxRequests
        /\ callLog[k].live = 0
        /\ maxRequests >= 1
        /\ ~callLog[k].ok

\* C7 (as claimed): with maxRequests >= 1, a call made more than window after
\* the most recent admitted call is admitted.
C7_RecoversAfterWindow ==
    \A k \in DOMAIN callLog :
        (/\ maxRequests >= 1
         /\ \A j \in AdmittedBefore(k) : callLog[k].t - callLog[j].t > window)
        => callLog[k].ok

\* C7: the limiter had reached its quota, was rejecting, and still rejects a
\* call made more than window after the last admitted one
C7_StuckAfterWindow ==
    \E k \in DOMAIN callLog :
        /\ maxRequests >= 1
        /\ ~callLog[k].ok
        /\ \A j \in AdmittedBefore(k) : callLog[k].t - callLog[j].t > window
        /\ \E j \in 1 .. (k - 1) : ~callLog[j].ok

\* C8: on a fresh limiter, as long as no time has passed since the first
\* call, call number k is admitted iff k <= maxRequests.
C8_Burst ==
    \A k \in DOMAIN callLog :
        (\A j \in 1 .. k : callLog[j].t = callLog[1].t)
        => (callLog[k].ok <=> k <= maxRequests)

\* C8 witness: a burst longer than the quota, its last call rejected
C8_Witness ==
    /\ maxRequests >= 2
    /\ Len(callLog) > maxRequests + 1
    /\ \A j \in DOMAIN callLog : callLog[j].t = callLog[1].t
    /\ ~callLog[Len(callLog)].ok

\* the callers between rl.mu.Lock() and rl.mu.Unlock()
InCritical == {g \in Callers : gpc[g] \in {"now", "trim", "check", "append", "unlock"}}

\* C9: at most one goroutine is inside the critical section of Allow(), it is
\* the one holding rl.mu, and however the calls interleave rl.requests never
\* holds more than maxRequests timestamps and no window holds more than
\* maxRequests admitted calls.
C9_Serialized ==
    /\ Cardinality(InCritical) <= 1
    /\ \A g \in InCritical : mu = g
    /\ Len(requests) <= maxRequests
    /\ \A T \in 0 .. MaxTime : Cardinality(AdmittedInWindow(T)) <= maxRequests

\* C9 witness: one goroutine is deciding inside the critical section while
\* another has called Allow() and waits for the lock, with one slot left
C9_Witness ==
    /\ \E g \in Callers : gpc[g] = "check"
    /\ \E g \in Callers : gpc[g] = "lock"
    /\ Len(requests) = maxRequests - 1

\* the admitted calls before call k whose timestamp is exactly window old
\* when call k is made
AtWindowEdge(k) ==
    {j \in AdmittedBefore(k) : callLog[k].t - callLog[j].t = window}

\* C15: the boundary is inclusive: when Allow() decides, the recorded
\* timestamps it counts as unexpired are all admitted ones with
\* now - t <= window, those with now - t = window included; so a call made
\* exactly window after maxRequests admitted calls is rejected.
C15_InclusiveBoundary ==
    \A k \in DOMAIN callLog :
        /\ callLog[k].live =
              Cardinality({j \in AdmittedBefore(k) :
                              callLog[k].t - callLog[j].t <= window})
        /\ Cardinality(AtWindowEdge(k)) >= maxRequests => ~callLog[k].ok

\* C15 witness: maxRequests calls admitted at t, and a call at exactly
\* t + window that is rejected
C15_Witness ==
    \E k \in DOMAIN callLog :
        /\ maxRequests >= 2
        /\ Cardinality(AtWindowEdge(k)) = maxRequests
        /\ ~callLog[k].ok

\* C16: rl.requests never holds more than maxRequests timestamps, is in
\* non-decreasing order, and holds only timestamps of admitted calls (each at
\* most as often as a call with that timestamp was admitted).
C16_RequestsInvariant ==
    /\ Len(requests) <= maxRequests
    /\ \A i \in 1 .. (Len(requests) - 1) : requests[i] <= requests[i + 1]
    /\ \A t \in 0 .. MaxTime :
          Cardinality({i \in DOMAIN requests : requests[i] = t})
            <= Cardinality({k \in DOMAIN callLog :
                               callLog[k].ok /\ callLog[k].t = t})

\* C16 witness: a full slice with two different timestamps, after an older
\* timestamp was trimmed and a call was rejected
C16_Witness ==
    /\ maxRequests >= 2
    /\ Len(requests) = maxRequests
    /\ requests[1] < requests[Len(requests)]
    /\ \E k \in DOMAIN callLog : ~callLog[k].ok
    /\ \E k \in DOMAIN callLog : callLog[k].ok /\ callLog[k].t < requests[1]

\* ---------------------------------------------------------------- Account
\* src/main.go, lines 54-113 (the same code is Project 1 of
\* golang-mini-projects.md).

Categories == {"food", "x"}

\* the amounts passed to AddIncome and AddExpense
Amounts == {Fin(n) : n \in -1 .. MaxAmount} \cup {NaN, PosInf}

NotPositiveStrict(amount) == FLess(amount, Fin(0))

\* if amount <= 0
NotPositive(amount) == FLe(amount, Fin(0))

InsufficientOrEqual(amount, balance) == FGe(amount, balance)

\* if amount > a.Balance
Insufficient(amount, balance) == FGt(amount, balance)

\* the state a call starts from, kept in lastCall
AccountState == [Balance |-> Balance, Transactions |-> Transactions,
                 nextID |-> nextID]

\* NewAccount(name, initialBalance) has returned
InitAccount ==
    /\ initialBalance \in {Fin(n) : n \in -1 .. MaxBalance}
    /\ Balance = initialBalance
    /\ Transactions = <<>>
    /\ nextID = 1
    /\ acctCalls = 0
    /\ lastCall = NoCall
    /\ PoolIdle
    /\ LimiterIdle
    /\ ShortenerIdle
    /\ ScraperIdle
    /\ TasksIdle
    /\ LibraryIdle
    /\ ServerIdle
    /\ GitIdle

\* a.AddIncome(amount, category)
AddIncome(amount, category) ==
    /\ acctCalls < MaxAcctCalls
    /\ acctCalls' = acctCalls + 1
    /\ IF NotPositive(amount)
         THEN /\ lastCall' = [op |-> "AddIncome", amount |-> amount,
                              category |-> category,
                              out |-> "Amount must be positive",
                              before |-> AccountState]
              /\ UNCHANGED <<Balance, Transactions, nextID>>
         ELSE /\ Balance' = FAdd(Balance, amount)
              /\ Transactions' = Append(Transactions,
                    [ID |-> nextID, Amount |-> amount, Category |-> category,
                     Type |-> "income"])
              /\ nextID' = nextID + 1
              /\ lastCall' = [op |-> "AddIncome", amount |-> amount,
                              category |-> category, out |-> "nil",
                              before |-> AccountState]
    /\ UNCHANGED initialBalance
    /\ UNCHANGED otherThanAccount

\* a.AddExpense(amount, category)
AddExpense(amount, category) ==
    /\ acctCalls < MaxAcctCalls
    /\ acctCalls' = acctCalls + 1
    /\ IF NotPositive(amount)
         THEN /\ lastCall' = [op |-> "AddExpense", amount |-> amount,
                              category |-> category,
                              out |-> "amount must be positive",
                              before |-> AccountState]
              /\ UNCHANGED <<Balance, Transactions, nextID>>
         ELSE IF Insufficient(amount, Balance)
         THEN /\ lastCall' = [op |-> "AddExpense", amount |-> amount,
                              category |-> category,
                              out |-> "insufficient balance",
                              before |-> AccountState]
              /\ UNCHANGED <<Balance, Transactions, nextID>>
         ELSE /\ Balance' = FSub(Balance, amount)
              /\ Transactions' = Append(Transactions,
                    [ID |-> nextID, Amount |-> amount, Category |-> category,
                     Type |-> "expense"])
              /\ nextID' = nextID + 1
              /\ lastCall' = [op |-> "AddExpense", amount |-> amount,
                              category |-> category, out |-> "nil",
                              before |-> AccountState]
    /\ UNCHANGED initialBalance
    /\ UNCHANGED otherThanAccount

NextAccount ==
    \/ \E amount \in Amounts, category \in Categories :
          AddIncome(amount, category)
    \/ \E amount \in Amounts, category \in Categories :
          AddExpense(amount, category)

SpecAccount == InitAccount /\ [][NextAccount]_vars

\* ---------------------------------------------------- Account: properties

\* the account is exactly as it was before the last call
AccountUnchanged ==
    /\ Balance = lastCall.before.Balance
    /\ Transactions = lastCall.before.Transactions
    /\ nextID = lastCall.before.nextID

\* the last call recorded exactly one transaction of this type and amount
RecordedOne(type) ==
    /\ Transactions = Append(lastCall.before.Transactions,
          [ID |-> lastCall.before.nextID, Amount |-> lastCall.amount,
           Category |-> lastCall.category, Type |-> type])
    /\ nextID = lastCall.before.nextID + 1

C18_InvalidAmount ==
    (/\ lastCall.op \in {"AddIncome", "AddExpense"}
     /\ FLe(lastCall.amount, Fin(0))) =>
        /\ AccountUnchanged
        /\ lastCall.op = "AddExpense" => lastCall.out = "amount must be positive"
        /\ lastCall.op = "AddIncome" => lastCall.out = "Amount must be positive"

\* C18 witness: an AddExpense whose amount is not positive and also exceeds
\* the balance: the amount is checked first
C18_Witness ==
    /\ lastCall.op = "AddExpense"
    /\ FLe(lastCall.amount, Fin(0))
    /\ FGt(lastCall.amount, lastCall.before.Balance)
    /\ lastCall.out = "amount must be positive"

\* ------------------------------------------------------------ URLShortener

\* the long URLs the clients pass to Shorten
URLs == 1 .. MaxURLs

\* the short codes generateShortCode can return; the clients also pass them
\* to Expand and Click
Codes == 1 .. MaxCodes

\* Expand's first result when the code is unknown: the empty string
NoURL == 0

Clients == 1 .. numClients

\* m[k] = v on a Go map
MapPut(m, k, v) == [x \in DOMAIN m \cup {k} |-> IF x = k THEN v ELSE m[x]]

\* m[k] on a Go map of ints: the zero value when the key is missing
MapGet(m, k) == IF k \in DOMAIN m THEN m[k] ELSE 0

\* generateShortCode: the first six hex digits of the MD5 of the long URL. The
\* digest is not computed here; the state holds it as a function of the long
\* URL, fixed for the run, and every such function is explored, those that
\* give two long URLs the same prefix included.
generateShortCode(longURL) == codeOf[longURL]

\* a write lock that is never refused
UsCanLockAlways(writer, readers) == TRUE

\* us.mu.Lock() goes through when nobody holds the lock, to write or to read
UsCanLock(writer, readers) == writer = 0 /\ readers = {}

\* us.mu.RLock() goes through when nobody holds the write lock
UsCanRLock(writer) == writer = 0

\* a lookup in reverseMap that never finds the long URL
AlreadyShortenedNever(longURL) == FALSE

\* Shorten: short, exists := us.reverseMap[longURL]
AlreadyShortened(longURL) == longURL \in DOMAIN reverseMap

\* a lookup in urlMap that finds every code
ClickExistsAlways(shortURL) == TRUE

\* Click: _, exists := us.urlMap[shortURL]
ClickExists(shortURL) == shortURL \in DOMAIN urlMap

\* what Expand returns for a short code, from the map as it is
ExpandResult(shortURL) ==
    IF shortURL \in DOMAIN urlMap
    THEN [longURL |-> urlMap[shortURL], err |-> "nil"]
    ELSE [longURL |-> NoURL, err |-> "short URL not found"]

InitShortener ==
    /\ codeOf \in [URLs -> Codes]
    /\ urlMap = EmptyMap
    /\ reverseMap = EmptyMap
    /\ stats = EmptyMap
    /\ usWriter = 0
    /\ usReaders = {}
    /\ numClients \in 1 .. MaxClients
    /\ cpc = [c \in Clients |-> "idle"]
    /\ cop = [c \in Clients |-> NoOp]
    /\ clocal = [c \in Clients |-> 0]
    /\ cret = [c \in Clients |-> NoOp]
    /\ shortens = 0
    /\ clicks = 0
    /\ clicksOk = [code \in Codes |-> 0]
    /\ PoolIdle
    /\ LimiterIdle
    /\ AccountIdle
    /\ ScraperIdle
    /\ TasksIdle
    /\ LibraryIdle
    /\ ServerIdle
    /\ GitIdle

\* a client calls Shorten(longURL) and gets the write lock
ShortenLock(c, longURL) ==
    /\ cpc[c] = "idle"
    /\ shortens < MaxShortens
    /\ UsCanLock(usWriter, usReaders)
    /\ usWriter' = c
    /\ cop' = [cop EXCEPT ![c] = [op |-> "Shorten", arg |-> longURL]]
    /\ cpc' = [cpc EXCEPT ![c] = "shorten"]
    /\ shortens' = shortens + 1
    /\ UNCHANGED <<codeOf, urlMap, reverseMap, stats, usReaders, numClients,
                   clocal, cret, clicks, clicksOk, otherThanShortener>>

\* the body of Shorten: a long URL already shortened gets its code back, a
\* new one gets the generated code, which is written into the three maps
ShortenBody(c) ==
    /\ cpc[c] = "shorten"
    /\ LET longURL == cop[c].arg
           short == generateShortCode(longURL)
       IN IF AlreadyShortened(longURL)
          THEN /\ cret' = [cret EXCEPT ![c] = [short |-> reverseMap[longURL]]]
               /\ UNCHANGED <<urlMap, reverseMap, stats, clicksOk>>
          ELSE /\ urlMap' = MapPut(urlMap, short, longURL)
               /\ reverseMap' = MapPut(reverseMap, longURL, short)
               /\ stats' = MapPut(stats, short, 0)
               /\ clicksOk' = [clicksOk EXCEPT ![short] = 0]
               /\ cret' = [cret EXCEPT ![c] = [short |-> short]]
    /\ cpc' = [cpc EXCEPT ![c] = "unlock"]
    /\ UNCHANGED <<codeOf, usWriter, usReaders, numClients, cop, clocal,
                   shortens, clicks, otherThanShortener>>

\* a client calls Click(shortURL); it may have to wait for the lock
ClickCall(c, shortURL) ==
    /\ cpc[c] = "idle"
    /\ clicks < MaxClicks
    /\ cop' = [cop EXCEPT ![c] = [op |-> "Click", arg |-> shortURL]]
    /\ cpc' = [cpc EXCEPT ![c] = "clickLock"]
    /\ clicks' = clicks + 1
    /\ UNCHANGED <<codeOf, urlMap, reverseMap, stats, usWriter, usReaders,
                   numClients, clocal, cret, shortens, clicksOk,
                   otherThanShortener>>

\* us.mu.Lock() of Click
ClickLock(c) ==
    /\ cpc[c] = "clickLock"
    /\ UsCanLock(usWriter, usReaders)
    /\ usWriter' = c
    /\ cpc' = [cpc EXCEPT ![c] = "clickCheck"]
    /\ UNCHANGED <<codeOf, urlMap, reverseMap, stats, usReaders, numClients,
                   cop, clocal, cret, shortens, clicks, clicksOk,
                   otherThanShortener>>

\* Click looks the code up in urlMap
ClickCheck(c) ==
    /\ cpc[c] = "clickCheck"
    /\ IF ClickExists(cop[c].arg)
       THEN /\ cpc' = [cpc EXCEPT ![c] = "clickRead"]
            /\ UNCHANGED cret
       ELSE /\ cpc' = [cpc EXCEPT ![c] = "unlock"]
            /\ cret' = [cret EXCEPT ![c] = [err |-> "short URL not found"]]
    /\ UNCHANGED <<codeOf, urlMap, reverseMap, stats, usWriter, usReaders,
                   numClients, cop, clocal, shortens, clicks, clicksOk,
                   otherThanShortener>>

\* us.stats[shortURL]++, first half: read the count
ClickRead(c) ==
    /\ cpc[c] = "clickRead"
    /\ clocal' = [clocal EXCEPT ![c] = MapGet(stats, cop[c].arg)]
    /\ cpc' = [cpc EXCEPT ![c] = "clickWrite"]
    /\ UNCHANGED <<codeOf, urlMap, reverseMap, stats, usWriter, usReaders,
                   numClients, cop, cret, shortens, clicks, clicksOk,
                   otherThanShortener>>

\* us.stats[shortURL]++, second half: write the count plus one
ClickWrite(c) ==
    /\ cpc[c] = "clickWrite"
    /\ stats' = MapPut(stats, cop[c].arg, clocal[c] + 1)
    /\ clocal' = [clocal EXCEPT ![c] = 0]
    /\ cret' = [cret EXCEPT ![c] = [err |-> "nil"]]
    /\ cpc' = [cpc EXCEPT ![c] = "unlock"]
    /\ UNCHANGED <<codeOf, urlMap, reverseMap, usWriter, usReaders,
                   numClients, cop, shortens, clicks, clicksOk,
                   otherThanShortener>>

\* the deferred us.mu.Unlock() of Shorten and Click, and the return
UsUnlock(c) ==
    /\ cpc[c] = "unlock"
    /\ usWriter' = 0
    /\ clicksOk' = IF cop[c].op = "Click" /\ cret[c].err = "nil"
                   THEN [clicksOk EXCEPT ![cop[c].arg] = @ + 1]
                   ELSE clicksOk
    /\ cpc' = [cpc EXCEPT ![c] = "idle"]
    /\ cop' = [cop EXCEPT ![c] = NoOp]
    /\ cret' = [cret EXCEPT ![c] = NoOp]
    /\ UNCHANGED <<codeOf, urlMap, reverseMap, stats, usReaders, numClients,
                   clocal, shortens, clicks, otherThanShortener>>

\* a client calls Expand(shortURL): it gets the read lock and looks the code
\* up; no writer can get in before it unlocks
Expand(c, shortURL) ==
    /\ cpc[c] = "idle"
    /\ UsCanRLock(usWriter)
    /\ usReaders' = usReaders \cup {c}
    /\ cop' = [cop EXCEPT ![c] = [op |-> "Expand", arg |-> shortURL]]
    /\ cret' = [cret EXCEPT ![c] = ExpandResult(shortURL)]
    /\ cpc' = [cpc EXCEPT ![c] = "runlock"]
    /\ UNCHANGED <<codeOf, urlMap, reverseMap, stats, usWriter, numClients,
                   clocal, shortens, clicks, clicksOk, otherThanShortener>>

\* a client calls Stats(): it gets the read lock and copies us.stats
Stats(c) ==
    /\ cpc[c] = "idle"
    /\ UsCanRLock(usWriter)
    /\ usReaders' = usReaders \cup {c}
    /\ cop' = [cop EXCEPT ![c] = [op |-> "Stats", arg |-> 0]]
    /\ cret' = [cret EXCEPT ![c] =
                   [result |-> [k \in DOMAIN stats |-> stats[k]]]]
    /\ cpc' = [cpc EXCEPT ![c] = "runlock"]
    /\ UNCHANGED <<codeOf, urlMap, reverseMap, stats, usWriter, numClients,
                   clocal, shortens, clicks, clicksOk, otherThanShortener>>

\* the deferred us.mu.RUnlock() of Expand and Stats, and the return
UsRUnlock(c) ==
    /\ cpc[c] = "runlock"
    /\ usReaders' = usReaders \ {c}
    /\ cpc' = [cpc EXCEPT ![c] = "idle"]
    /\ cop' = [cop EXCEPT ![c] = NoOp]
    /\ cret' = [cret EXCEPT ![c] = NoOp]
    /\ UNCHANGED <<codeOf, urlMap, reverseMap, stats, usWriter, numClients,
                   clocal, shortens, clicks, clicksOk,
                   otherThanShortener>>

NextShortener ==
    \/ \E c \in Clients, longURL \in URLs : ShortenLock(c, longURL)
    \/ \E c \in Clients : ShortenBody(c)
    \/ \E c \in Clients, shortURL \in Codes : ClickCall(c, shortURL)
    \/ \E c \in Clients : ClickLock(c)
    \/ \E c \in Clients : ClickCheck(c)
    \/ \E c \in Clients : ClickRead(c)
    \/ \E c \in Clients : ClickWrite(c)
    \/ \E c \in Clients : UsUnlock(c)
    \/ \E c \in Clients, shortURL \in Codes : Expand(c, shortURL)
    \/ \E c \in Clients : Stats(c)
    \/ \E c \in Clients : UsRUnlock(c)

SpecShortener == InitShortener /\ [][NextShortener]_vars

\* -------------------------------------------------- URLShortener properties

\* the clients that are inside a Click call, waiting for the lock included
Clicking == {c \in Clients : cop[c].op = "Click"}

\* C17: when the Click calls on existing codes have all returned, each code's
\* count is exactly the number of those calls since the code was created, in
\* every interleaving (no lost update), so k calls on a code add exactly k and
\* nothing to the other codes; and Stats() returns these counts.
C17_NoLostUpdate ==
    /\ Clicking = {} =>
           \A code \in Codes : MapGet(stats, code) = clicksOk[code]
    /\ \A c \in Clients :
           (cpc[c] = "runlock" /\ cop[c].op = "Stats" /\ Clicking = {}) =>
               /\ DOMAIN cret[c].result = DOMAIN stats
               /\ \A code \in DOMAIN stats :
                      cret[c].result[code] = clicksOk[code]

\* C17 witness: two clients are in Click on the same existing code at once,
\* one has counted its click and is about to unlock, the other waits for the
\* lock; a second code exists and has no clicks
C17_Witness ==
    \E c1, c2 \in Clients, other \in DOMAIN stats :
        /\ c1 # c2
        /\ cop[c1].op = "Click"
        /\ cop[c2].op = "Click"
        /\ cop[c1].arg = cop[c2].arg
        /\ cop[c1].arg \in DOMAIN urlMap
        /\ other # cop[c1].arg
        /\ cpc[c1] = "unlock"
        /\ cret[c1] = [err |-> "nil"]
        /\ cpc[c2] = "clickLock"
        /\ stats[cop[c1].arg] = 1
        /\ stats[other] = 0

\* C20: for every long URL that has been passed to Shorten, Expand of the
\* code Shorten returns for it gives that URL back, and urlMap and reverseMap
\* are inverse to each other, whatever codes generateShortCode assigns.
C20_RoundTrip ==
    /\ \A u \in DOMAIN reverseMap :
           ExpandResult(reverseMap[u]) = [longURL |-> u, err |-> "nil"]
    /\ \A short \in DOMAIN urlMap :
           /\ urlMap[short] \in DOMAIN reverseMap
           /\ reverseMap[urlMap[short]] = short

\* C20: two long URLs with the same generated code have been shortened, and
\* an Expand of the code Shorten returned for the first is about to return the
\* second
C20_Collision ==
    \E u1, u2 \in DOMAIN reverseMap, c \in Clients :
        /\ u1 # u2
        /\ generateShortCode(u1) = generateShortCode(u2)
        /\ reverseMap[u1] = reverseMap[u2]
        /\ cpc[c] = "runlock"
        /\ cop[c].op = "Expand"
        /\ cop[c].arg = reverseMap[u1]
        /\ cret[c] = [longURL |-> u2, err |-> "nil"]

\* C21: a Shorten(u) of a long URL that has been shortened before returns the
\* code generated for u the first time and leaves urlMap, reverseMap and stats
\* as they are: the clicks counted for the code stay.
C21_ShortenIdempotent ==
    [][\A c \in Clients :
          (/\ cpc[c] = "shorten"
           /\ cpc'[c] = "unlock"
           /\ cop[c].arg \in DOMAIN reverseMap)
          => /\ cret'[c] = [short |-> reverseMap[cop[c].arg]]
             /\ reverseMap[cop[c].arg] = codeOf[cop[c].arg]
             /\ urlMap' = urlMap
             /\ reverseMap' = reverseMap
             /\ stats' = stats]_vars

\* C21 witness: a Shorten of a long URL is about to return and the code of
\* that URL has a click counted: the URL was shortened before, and clicked
C21_Witness ==
    \E c \in Clients :
        /\ cpc[c] = "unlock"
        /\ cop[c].op = "Shorten"
        /\ cop[c].arg \in DOMAIN reverseMap
        /\ cret[c] = [short |-> reverseMap[cop[c].arg]]
        /\ stats[reverseMap[cop[c].arg]] >= 1

\* C26: Click and Expand with a code that is not in urlMap return "short URL
\* not found"; that Click changes no map and makes no stats entry for the
\* code, and no Expand changes a map.
C26_LookupMiss ==
    [][\A c \in Clients :
          /\ (/\ cop[c].op = "Click"
              /\ cop[c].arg \notin DOMAIN urlMap
              /\ cpc[c] \in {"clickCheck", "unlock"}
              /\ cpc'[c] # cpc[c])
             => /\ cpc[c] = "clickCheck" =>
                       /\ cpc'[c] = "unlock"
                       /\ cret'[c] = [err |-> "short URL not found"]
                /\ cpc[c] = "unlock" =>
                       cret[c] = [err |-> "short URL not found"]
                /\ cop[c].arg \notin DOMAIN stats'
                /\ stats' = stats
                /\ urlMap' = urlMap
                /\ reverseMap' = reverseMap
          /\ (cop'[c].op = "Expand" \/ cop[c].op = "Expand")
             => /\ stats' = stats
                /\ urlMap' = urlMap
                /\ reverseMap' = reverseMap
          /\ (cop'[c].op = "Expand" /\ cpc[c] = "idle"
              /\ cop'[c].arg \notin DOMAIN urlMap)
             => cret'[c] = [longURL |-> NoURL, err |-> "short URL not found"]
      ]_vars

\* C26 witness: a Click on a code that is not in urlMap is about to return its
\* error, while another code is in the maps with a click counted
C26_Witness ==
    \E c \in Clients :
        /\ cpc[c] = "unlock"
        /\ cop[c].op = "Click"
        /\ cop[c].arg \notin DOMAIN urlMap
        /\ cret[c] = [err |-> "short URL not found"]
        /\ \E other \in DOMAIN stats : stats[other] = 1

\* ------------------------------------------- Account: balance and ledger

\* the float64 sum of the amounts recorded with this type, in ledger order
RECURSIVE SumOf(_, _)
SumOf(txs, type) ==
    IF txs = <<>> THEN Fin(0)
    ELSE LET rest == SumOf(SubSeq(txs, 1, Len(txs) - 1), type)
             last == txs[Len(txs)]
         IN IF last.Type = type THEN FAdd(rest, last.Amount) ELSE rest

\* C24: for an account created with initialBalance >= 0, Balance >= 0 after
\* every sequence of AddIncome and AddExpense calls, whatever the amounts.
C24_NonNegative ==
    FGe(initialBalance, Fin(0)) => FGe(Balance, Fin(0))

\* C24: an account created with initialBalance >= 0 whose Balance is not
\* >= 0: AddIncome took NaN for a positive amount and added it
C24_NaNBalance ==
    /\ FGe(initialBalance, Fin(0))
    /\ lastCall.op = "AddIncome"
    /\ lastCall.amount = NaN
    /\ FGe(lastCall.before.Balance, Fin(0))
    /\ Balance = NaN
    /\ ~FGe(Balance, Fin(0))

\* C25: Balance equals initialBalance plus the recorded income amounts minus
\* the recorded expense amounts, and a call records a transaction if and only
\* if it changed the balance.
C25_Conservation ==
    /\ FEq(Balance, FSub(FAdd(initialBalance, SumOf(Transactions, "income")),
                         SumOf(Transactions, "expense")))
    /\ lastCall.op \in {"AddIncome", "AddExpense"} =>
           (Transactions # lastCall.before.Transactions
               <=> ~FEq(Balance, lastCall.before.Balance))

\* C25: an AddIncome of a finite positive amount has recorded its transaction
\* and the balance is what it was: the balance was +Inf already
C25_RecordedUnchanged ==
    /\ lastCall.op = "AddIncome"
    /\ lastCall.amount.k = "fin"
    /\ Len(Transactions) = Len(lastCall.before.Transactions) + 1
    /\ Transactions[Len(Transactions)].Amount = lastCall.amount
    /\ Balance = PosInf
    /\ FEq(Balance, lastCall.before.Balance)

\* -------------------------------------------------------- ScrapeConcurrent
\* Project 3 of golang-mini-projects.md, lines 263-313.

\* the URL fetchPage fails on
ErrorURL == "http://error.com"

\* the URLs the lists are made of
ScrapeURLs == {"http://example.com/1", ErrorURL}

\* the lists of URLs up to a length
RECURSIVE URLLists(_)
URLLists(n) ==
    IF n = 0 THEN {<<>>}
    ELSE LET shorter == URLLists(n - 1)
         IN shorter \cup {Append(l, u) : l \in {x \in shorter : Len(x) = n - 1},
                                        u \in ScrapeURLs}

\* the goroutines, one per element of urls
Scrapers == 1 .. Len(urls)

\* the zero value of Page
NoPage == [URL |-> "", Title |-> <<>>, Error |-> <<>>]

\* fetchPage(url), without the sleep
fetchPage(url) ==
    IF url = ErrorURL
    THEN [URL |-> url, Title |-> <<>>, Error |-> <<"failed to fetch", url>>]
    ELSE [URL |-> url, Title |-> <<"Page from", url>>, Error |-> <<>>]

\* a Wait() that returns while one goroutine is still running
ScWaitDoneEarly(n) == n <= 1

\* wg.Wait() returns when the counter is zero
ScWaitDone(n) == n = 0

\* ScrapeConcurrent(urls, maxConcurrent) has made its channels
InitScraper ==
    /\ urls \in URLLists(MaxScrapeURLs)
    /\ maxConcurrent \in 0 .. MaxConcurrent
    /\ semaphore = <<>>
    /\ scResults = <<>>
    /\ scResultsClosed = FALSE
    /\ scWg = 0
    /\ scNext = 0
    /\ scMain = "loop"
    /\ spc = [i \in Scrapers |-> "unborn"]
    /\ spage = [i \in Scrapers |-> NoPage]
    /\ pages = <<>>
    /\ PoolIdle
    /\ LimiterIdle
    /\ AccountIdle
    /\ ShortenerIdle
    /\ TasksIdle
    /\ LibraryIdle
    /\ ServerIdle
    /\ GitIdle

\* one turn of the for loop: wg.Add(1) and go func(u)
ScSpawn ==
    /\ scMain = "loop"
    /\ scNext < Len(urls)
    /\ scWg' = scWg + 1
    /\ scNext' = scNext + 1
    /\ spc' = [spc EXCEPT ![scNext + 1] = "acquire"]
    /\ UNCHANGED <<urls, maxConcurrent, semaphore, scResults, scResultsClosed,
                   scMain, spage, pages, otherThanScraper>>

\* the for loop is over
ScLoopEnd ==
    /\ scMain = "loop"
    /\ scNext = Len(urls)
    /\ scMain' = "wait"
    /\ UNCHANGED <<urls, maxConcurrent, semaphore, scResults, scResultsClosed,
                   scWg, scNext, spc, spage, pages, otherThanScraper>>

\* wg.Wait() returns
ScWait ==
    /\ scMain = "wait"
    /\ ScWaitDone(scWg)
    /\ scMain' = "close"
    /\ UNCHANGED <<urls, maxConcurrent, semaphore, scResults, scResultsClosed,
                   scWg, scNext, spc, spage, pages, otherThanScraper>>

\* close(results)
ScClose ==
    /\ scMain = "close"
    /\ scResultsClosed' = TRUE
    /\ scMain' = "range"
    /\ UNCHANGED <<urls, maxConcurrent, semaphore, scResults, scWg, scNext,
                   spc, spage, pages, otherThanScraper>>

\* one turn of `for page := range results`
ScCollect ==
    /\ scMain = "range"
    /\ scResults # <<>>
    /\ pages' = Append(pages, Head(scResults))
    /\ scResults' = RangeNext(scResults)
    /\ UNCHANGED <<urls, maxConcurrent, semaphore, scResultsClosed, scWg,
                   scNext, scMain, spc, spage, otherThanScraper>>

\* the range loop ends and ScrapeConcurrent returns pages
ScReturn ==
    /\ scMain = "range"
    /\ RangeEnds(scResults, scResultsClosed)
    /\ scMain' = "done"
    /\ UNCHANGED <<urls, maxConcurrent, semaphore, scResults, scResultsClosed,
                   scWg, scNext, spc, spage, pages, otherThanScraper>>

\* semaphore <- struct{}{}
ScAcquire(i) ==
    /\ spc[i] = "acquire"
    /\ CanSend(semaphore, maxConcurrent)
    /\ semaphore' = Append(semaphore, i)
    /\ spc' = [spc EXCEPT ![i] = "fetch"]
    /\ UNCHANGED <<urls, maxConcurrent, scResults, scResultsClosed, scWg,
                   scNext, scMain, spage, pages, otherThanScraper>>

\* page := fetchPage(u)
ScFetch(i) ==
    /\ spc[i] = "fetch"
    /\ spage' = [spage EXCEPT ![i] = fetchPage(urls[i])]
    /\ spc' = [spc EXCEPT ![i] = "send"]
    /\ UNCHANGED <<urls, maxConcurrent, semaphore, scResults, scResultsClosed,
                   scWg, scNext, scMain, pages, otherThanScraper>>

\* results <- page; on a closed channel the goroutine panics
ScSend(i) ==
    /\ spc[i] = "send"
    /\ scResultsClosed \/ CanSend(scResults, Len(urls))
    /\ IF SendOutcome(scResultsClosed) = "panic"
       THEN /\ spc' = [spc EXCEPT ![i] = "panicked"]
            /\ UNCHANGED scResults
       ELSE /\ scResults' = Append(scResults, spage[i])
            /\ spc' = [spc EXCEPT ![i] = "release"]
    /\ UNCHANGED <<urls, maxConcurrent, semaphore, scResultsClosed, scWg,
                   scNext, scMain, spage, pages, otherThanScraper>>

\* the deferred <-semaphore
ScRelease(i) ==
    /\ spc[i] = "release"
    /\ semaphore # <<>>
    /\ semaphore' = Tail(semaphore)
    /\ spc' = [spc EXCEPT ![i] = "wgdone"]
    /\ UNCHANGED <<urls, maxConcurrent, scResults, scResultsClosed, scWg,
                   scNext, scMain, spage, pages, otherThanScraper>>

\* the deferred wg.Done(); the goroutine ends
ScDone(i) ==
    /\ spc[i] = "wgdone"
    /\ scWg' = scWg - 1
    /\ spc' = [spc EXCEPT ![i] = "exit"]
    /\ UNCHANGED <<urls, maxConcurrent, semaphore, scResults, scResultsClosed,
                   scNext, scMain, spage, pages, otherThanScraper>>

ScraperStep(i) ==
    ScAcquire(i) \/ ScFetch(i) \/ ScSend(i) \/ ScRelease(i) \/ ScDone(i)

ScMainStep ==
    ScSpawn \/ ScLoopEnd \/ ScWait \/ ScClose \/ ScCollect \/ ScReturn

NextScraper ==
    \/ ScSpawn
    \/ ScLoopEnd
    \/ ScWait
    \/ ScClose
    \/ ScCollect
    \/ ScReturn
    \/ \E i \in Scrapers : ScAcquire(i)
    \/ \E i \in Scrapers : ScFetch(i)
    \/ \E i \in Scrapers : ScSend(i)
    \/ \E i \in Scrapers : ScRelease(i)
    \/ \E i \in Scrapers : ScDone(i)

SpecScraper == InitScraper /\ [][NextScraper]_vars

\* fair scheduling, in its weakest form: while some step of ScrapeConcurrent
\* or of a goroutine can be taken, a step is taken
FairScraper == WF_vars(NextScraper)

SpecScraperFair == InitScraper /\ [][NextScraper]_vars /\ FairScraper

\* --------------------------------------------- ScrapeConcurrent properties

\* the goroutines between acquiring and releasing the semaphore
Holding == {i \in Scrapers : spc[i] \in {"fetch", "send", "release"}}

\* the pages of a sequence that carry this URL
PagesOf(seq, u) == {k \in 1 .. Len(seq) : seq[k].URL = u}

\* C22: at every moment at most maxConcurrent goroutines are between
\* acquiring and releasing the semaphore, so at most maxConcurrent fetchPage
\* calls are in progress, whatever the number of URLs.
C22_ConcurrencyLimit ==
    /\ Cardinality(Holding) <= maxConcurrent
    /\ Cardinality(Holding) = Len(semaphore)
    /\ Cardinality({i \in Scrapers : spc[i] = "fetch"}) <= maxConcurrent

\* C22 witness: more URLs than maxConcurrent; the semaphore is full, with two
\* goroutines holding it, and another goroutine waits to acquire it
C22_Witness ==
    /\ Len(urls) > maxConcurrent
    /\ Cardinality(Holding) = maxConcurrent
    /\ maxConcurrent >= 2
    /\ \E i \in Scrapers : spc[i] = "acquire"
    /\ \E i \in Scrapers : spc[i] = "fetch"

\* what holds of ScrapeConcurrent at every moment when maxConcurrent >= 1
ScrapeSafe ==
    /\ scMain = "done" =>
          /\ Len(pages) = Len(urls)
          /\ \A u \in ScrapeURLs :
                Cardinality(PagesOf(pages, u))
                    = Cardinality({i \in Scrapers : urls[i] = u})
          /\ \A k \in 1 .. Len(pages) :
                IF pages[k].URL = ErrorURL
                THEN pages[k].Error = <<"failed to fetch", ErrorURL>>
                ELSE /\ pages[k].Error = <<>>
                     /\ pages[k].Title = <<"Page from", pages[k].URL>>
    /\ \A i \in Scrapers :
          spc[i] = "send" => (~scResultsClosed /\ Len(scResults) < Len(urls))
    /\ \A i \in Scrapers : spc[i] # "panicked"
    /\ scResultsClosed => \A i \in Scrapers : spc[i] = "exit"

\* C23: with maxConcurrent >= 1 and fair scheduling ScrapeConcurrent
\* terminates and returns exactly one Page per input URL, a failed fetch as a
\* Page with its Error; no goroutine ever blocks on the results channel, and
\* the channel is closed only after all goroutines have finished.
C23_CompleteAndTerminates ==
    /\ [](maxConcurrent >= 1 => ScrapeSafe)
    /\ (maxConcurrent >= 1) ~> (scMain = "done")

\* C23 witness: ScrapeConcurrent has returned the pages of more URLs than
\* maxConcurrent, a failed fetch and a successful one among them
C23_Witness ==
    /\ scMain = "done"
    /\ maxConcurrent >= 1
    /\ Len(urls) > maxConcurrent
    /\ Len(pages) = Len(urls)
    /\ \E k \in 1 .. Len(pages) : pages[k].Error # <<>>
    /\ \E k \in 1 .. Len(pages) : pages[k].Error = <<>>

\* ------------------------------------------------------------- TaskManager
\* Project 2 of golang-mini-projects.md, lines 129-188.  DueDate and Created
\* are left out: no method reads them.

Priorities == {Low, Medium, High}

Statuses == {Todo, InProgress, Done}

\* the ids passed to UpdateStatus: those AddTask can hand out, 0, and one
\* that no task has
TaskIDs == 0 .. (MaxTasks + 1)

\* a comparison that takes every task for the one looked for
MatchesIDAny(task, id) == TRUE

\* if tm.tasks[i].ID == id
MatchesID(task, id) == task.ID = id

\* the index the loop of UpdateStatus stops at: that of the first task with
\* the id, or 0 when the loop runs to its end
FirstMatch(ts, id) ==
    IF \E i \in 1 .. Len(ts) : MatchesID(ts[i], id)
    THEN CHOOSE i \in 1 .. Len(ts) :
            /\ MatchesID(ts[i], id)
            /\ \A j \in 1 .. (i - 1) : ~MatchesID(ts[j], id)
    ELSE 0

\* NewTaskManager() has returned
InitTasks ==
    /\ tasks = <<>>
    /\ count = 0
    /\ tmAdds = 0
    /\ tmUpdates = 0
    /\ tmLast = NoCall
    /\ PoolIdle
    /\ LimiterIdle
    /\ AccountIdle
    /\ ShortenerIdle
    /\ ScraperIdle
    /\ LibraryIdle
    /\ ServerIdle
    /\ GitIdle

\* tm.AddTask(title, priority, dueDate)
AddTask(title, priority) ==
    /\ tmAdds < MaxTasks
    /\ tmAdds' = tmAdds + 1
    /\ LET task == [ID |-> count + 1, Title |-> title, Priority |-> priority,
                    Status |-> Todo]
       IN /\ tasks' = Append(tasks, task)
          /\ count' = count + 1
          /\ tmLast' = [op |-> "AddTask", id |-> task.ID, status |-> Todo,
                        out |-> <<task.ID>>, before |-> tasks,
                        beforeCount |-> count]
    /\ UNCHANGED <<tmUpdates, otherThanTasks>>

\* tm.UpdateStatus(id, status); the error nil is the empty tuple
UpdateStatus(id, status) ==
    /\ tmUpdates < MaxUpdates
    /\ tmUpdates' = tmUpdates + 1
    /\ LET i == FirstMatch(tasks, id)
       IN IF i # 0
          THEN /\ tasks' = [tasks EXCEPT ![i].Status = status]
               /\ tmLast' = [op |-> "UpdateStatus", id |-> id,
                             status |-> status, out |-> <<>>,
                             before |-> tasks, beforeCount |-> count]
          ELSE /\ tasks' = tasks
               /\ tmLast' = [op |-> "UpdateStatus", id |-> id,
                             status |-> status,
                             out |-> <<"task", id, "not found">>,
                             before |-> tasks, beforeCount |-> count]
    /\ UNCHANGED <<count, tmAdds, otherThanTasks>>

NextTasks ==
    \/ \E priority \in Priorities : AddTask("Learn Go", priority)
    \/ \E id \in TaskIDs, status \in Statuses : UpdateStatus(id, status)

SpecTasks == InitTasks /\ [][NextTasks]_vars

\* ------------------------------------------------- TaskManager properties

\* C27: UpdateStatus(id, s) with an id no task has returns the not-found
\* error and leaves every task as it was; with an existing id it sets the
\* Status of that task to s and leaves the other tasks, the other fields and
\* count as they were.  The IDs AddTask hands out are distinct, so one task at
\* most is affected.
C27_UpdateStatusFrame ==
    /\ \A i, j \in 1 .. Len(tasks) : i # j => tasks[i].ID # tasks[j].ID
    /\ tmLast.op = "UpdateStatus" =>
          LET before == tmLast.before
              hit == {i \in 1 .. Len(before) : before[i].ID = tmLast.id}
          IN /\ count = tmLast.beforeCount
             /\ Len(tasks) = Len(before)
             /\ hit = {} => /\ tmLast.out = <<"task", tmLast.id, "not found">>
                            /\ tasks = before
             /\ hit # {} =>
                   /\ tmLast.out = <<>>
                   /\ Cardinality(hit) = 1
                   /\ \A i \in 1 .. Len(before) :
                         tasks[i] = IF i \in hit
                                    THEN [ID |-> before[i].ID,
                                          Title |-> before[i].Title,
                                          Priority |-> before[i].Priority,
                                          Status |-> tmLast.status]
                                    ELSE before[i]

\* C27 witness: with three tasks, an UpdateStatus on the second one has
\* changed its Status, and the first task has a Status that is not Todo
C27_Witness ==
    /\ tmLast.op = "UpdateStatus"
    /\ tmLast.out = <<>>
    /\ Len(tasks) = 3
    /\ tmLast.id = 2
    /\ tasks[2].Status = tmLast.status
    /\ tmLast.before[2].Status # tmLast.status
    /\ tasks[1].Status # Todo

\* ----------------------------------------------------------------- Library
\* Library Management System of golang-mini-projects.md, lines 857-895.
\* Title and Author are left out: no method but ListBooks reads them.  The
\* error nil is the empty tuple.

\* the ids of the books added, and those passed to BorrowBook and ReturnBook
BookIDs == 1 .. MaxBookID

\* a book that is always taken for available
IsAvailableAlways(book) == TRUE

\* if !lib.Books[i].Available: the negated condition
IsAvailable(book) == book.Available

\* the index the loops of BorrowBook and ReturnBook stop at: that of the
\* first book with the id, or 0 when the loop runs to its end
FirstBook(bs, id) ==
    IF \E i \in 1 .. Len(bs) : bs[i].ID = id
    THEN CHOOSE i \in 1 .. Len(bs) :
            /\ bs[i].ID = id
            /\ \A j \in 1 .. (i - 1) : bs[j].ID # id
    ELSE 0

\* lib := Library{Name: "City Library"}
InitLibrary ==
    /\ Books = <<>>
    /\ libAdds = 0
    /\ libCalls = 0
    /\ openLoans = {}
    /\ borrows = [id \in BookIDs |-> 0]
    /\ libLast = NoCall
    /\ PoolIdle
    /\ LimiterIdle
    /\ AccountIdle
    /\ ShortenerIdle
    /\ ScraperIdle
    /\ TasksIdle
    /\ ServerIdle
    /\ GitIdle

\* lib.AddBook(book): no check of the ID
AddBook(book) ==
    /\ libAdds < MaxBooks
    /\ libAdds' = libAdds + 1
    /\ Books' = Append(Books, book)
    /\ libLast' = [op |-> "AddBook", id |-> book.ID, out |-> <<>>,
                   before |-> Books, openBefore |-> openLoans]
    /\ UNCHANGED <<libCalls, openLoans, borrows, otherThanLibrary>>

\* lib.BorrowBook(id)
BorrowBook(id) ==
    /\ libCalls < MaxLibCalls
    /\ libCalls' = libCalls + 1
    /\ LET i == FirstBook(Books, id)
           out == IF i = 0 THEN <<"book not found">>
                  ELSE IF ~IsAvailable(Books[i])
                       THEN <<"book already borrowed">>
                       ELSE <<>>
       IN /\ Books' = IF out = <<>>
                      THEN [Books EXCEPT ![i].Available = FALSE]
                      ELSE Books
          /\ openLoans' = IF out = <<>> THEN openLoans \cup {id}
                          ELSE openLoans
          /\ borrows' = IF out = <<>> THEN [borrows EXCEPT ![id] = @ + 1]
                        ELSE borrows
          /\ libLast' = [op |-> "BorrowBook", id |-> id, out |-> out,
                         before |-> Books, openBefore |-> openLoans]
    /\ UNCHANGED <<libAdds, otherThanLibrary>>

\* lib.ReturnBook(id)
ReturnBook(id) ==
    /\ libCalls < MaxLibCalls
    /\ libCalls' = libCalls + 1
    /\ LET i == FirstBook(Books, id)
           out == IF i = 0 THEN <<"book not found">> ELSE <<>>
       IN /\ Books' = IF out = <<>>
                      THEN [Books EXCEPT ![i].Available = TRUE]
                      ELSE Books
          /\ libLast' = [op |-> "ReturnBook", id |-> id, out |-> out,
                         before |-> Books, openBefore |-> openLoans]
    /\ openLoans' = openLoans \ {id}
    /\ UNCHANGED <<libAdds, borrows, otherThanLibrary>>

NextLibrary ==
    \/ \E id \in BookIDs, available \in BOOLEAN :
          AddBook([ID |-> id, Available |-> available])
    \/ \E id \in BookIDs : BorrowBook(id)
    \/ \E id \in BookIDs : ReturnBook(id)

SpecLibrary == InitLibrary /\ [][NextLibrary]_vars

\* ----------------------------------------------------- Library properties

\* the IDs of the books are distinct
DistinctBookIDs ==
    \A i, j \in 1 .. Len(Books) : i # j => Books[i].ID # Books[j].ID

\* C28: in a library whose book IDs are distinct, a BorrowBook(id) that
\* returns nil found the book available and has made it unavailable, and one
\* on a borrowed book returns "book already borrowed" and changes nothing; so
\* a successful BorrowBook(id) never follows another one without a
\* ReturnBook(id) between them.
C28_BorrowProtocol ==
    (DistinctBookIDs /\ libLast.op = "BorrowBook") =>
        LET before == libLast.before
            hit == {i \in 1 .. Len(before) : before[i].ID = libLast.id}
        IN /\ libLast.out = <<>> =>
                 /\ hit # {}
                 /\ \A i \in hit : before[i].Available /\ ~Books[i].Available
                 /\ \A i \in 1 .. Len(before) :
                       i \notin hit => Books[i] = before[i]
                 /\ Len(Books) = Len(before)
                 /\ libLast.id \notin libLast.openBefore
           /\ (\E i \in hit : ~before[i].Available) =>
                 /\ libLast.out = <<"book already borrowed">>
                 /\ Books = before

\* C28 witness: the second successful BorrowBook of a book, in a library of
\* two books with distinct IDs
C28_Witness ==
    /\ DistinctBookIDs
    /\ Len(Books) = 2
    /\ libLast.op = "BorrowBook"
    /\ libLast.out = <<>>
    /\ borrows[libLast.id] = 2

\* ------------------------------------------------------------- REST server
\* The REST API server of golang-mini-projects.md, lines 2846-2896: the
\* handler createArticle, called once per request, each call in a goroutine
\* of its own as net/http does.

Posts == 1 .. numPosts

\* a lock that is never refused
SrvCanLockAlways(holder) == TRUE

\* s.mu.Lock() goes through when nobody holds the lock (no handler modelled
\* here takes the read lock)
SrvCanLock(holder) == holder = 0

\* NewServer() has returned and the requests have arrived
InitServer ==
    /\ articles = EmptyMap
    /\ srvMu = 0
    /\ srvNextID = 1
    /\ numPosts \in 1 .. MaxPosts
    /\ bodies \in [Posts -> {"json", "malformed"}]
    /\ rpc = [r \in Posts |-> "decode"]
    /\ rarticle = [r \in Posts |-> [ID |-> 0, Title |-> r]]
    /\ PoolIdle
    /\ LimiterIdle
    /\ AccountIdle
    /\ ShortenerIdle
    /\ ScraperIdle
    /\ TasksIdle
    /\ LibraryIdle
    /\ GitIdle

\* json.NewDecoder(r.Body).Decode(&article); an error ends the request with
\* 400 Bad Request
CreateDecode(r) ==
    /\ rpc[r] = "decode"
    /\ rpc' = [rpc EXCEPT ![r] = IF bodies[r] = "json" THEN "lock"
                                  ELSE "badRequest"]
    /\ UNCHANGED <<articles, srvMu, srvNextID, numPosts, bodies, rarticle,
                   otherThanServer>>

\* s.mu.Lock()
CreateLock(r) ==
    /\ rpc[r] = "lock"
    /\ SrvCanLock(srvMu)
    /\ srvMu' = r
    /\ rpc' = [rpc EXCEPT ![r] = "assign"]
    /\ UNCHANGED <<articles, srvNextID, numPosts, bodies, rarticle,
                   otherThanServer>>

\* article.ID = s.nextID
CreateAssign(r) ==
    /\ rpc[r] = "assign"
    /\ rarticle' = [rarticle EXCEPT ![r].ID = srvNextID]
    /\ rpc' = [rpc EXCEPT ![r] = "store"]
    /\ UNCHANGED <<articles, srvMu, srvNextID, numPosts, bodies,
                   otherThanServer>>

\* s.articles[article.ID] = article
CreateStore(r) ==
    /\ rpc[r] = "store"
    /\ articles' = MapPut(articles, rarticle[r].ID, rarticle[r])
    /\ rpc' = [rpc EXCEPT ![r] = "incr"]
    /\ UNCHANGED <<srvMu, srvNextID, numPosts, bodies, rarticle,
                   otherThanServer>>

\* s.nextID++
CreateIncr(r) ==
    /\ rpc[r] = "incr"
    /\ srvNextID' = srvNextID + 1
    /\ rpc' = [rpc EXCEPT ![r] = "unlock"]
    /\ UNCHANGED <<articles, srvMu, numPosts, bodies, rarticle,
                   otherThanServer>>

\* s.mu.Unlock(), then the 201 Created response with the article
CreateUnlock(r) ==
    /\ rpc[r] = "unlock"
    /\ srvMu' = 0
    /\ rpc' = [rpc EXCEPT ![r] = "created"]
    /\ UNCHANGED <<articles, srvNextID, numPosts, bodies, rarticle,
                   otherThanServer>>

NextServer ==
    \/ \E r \in Posts : CreateDecode(r)
    \/ \E r \in Posts : CreateLock(r)
    \/ \E r \in Posts : CreateAssign(r)
    \/ \E r \in Posts : CreateStore(r)
    \/ \E r \in Posts : CreateIncr(r)
    \/ \E r \in Posts : CreateUnlock(r)

SpecServer == InitServer /\ [][NextServer]_vars

\* ------------------------------------------------- REST server properties

\* the requests that have been given an ID
Assigned == {r \in Posts : rpc[r] \in {"store", "incr", "unlock", "created"}}

\* the requests answered with 201 Created
Created == {r \in Posts : rpc[r] = "created"}

\* C29: with createArticle requests running concurrently, the created
\* articles have distinct IDs; the IDs stored are 1..n for n articles, and
\* when the requests are over the IDs answered are exactly 1..n for the n
\* creations; whenever the lock is free nextID is one more than the number of
\* stored articles.
C29_DistinctIDs ==
    /\ \A r1, r2 \in Assigned : r1 # r2 => rarticle[r1].ID # rarticle[r2].ID
    /\ DOMAIN articles = 1 .. Cardinality(DOMAIN articles)
    /\ \A id \in DOMAIN articles : articles[id].ID = id
    /\ srvMu = 0 => srvNextID = Cardinality(DOMAIN articles) + 1
    /\ (\A r \in Posts : rpc[r] \in {"created", "badRequest"}) =>
          {rarticle[r].ID : r \in Created} = 1 .. Cardinality(Created)

\* C29 witness: of three concurrent requests two have been answered, with
\* the IDs 1 and 2, and the third holds the lock and is about to take ID 3
C29_Witness ==
    \E r1, r2, r3 \in Posts :
        /\ rpc[r1] = "created"
        /\ rpc[r2] = "created"
        /\ rarticle[r1].ID = 1
        /\ rarticle[r2].ID = 2
        /\ rpc[r3] = "assign"
        /\ srvNextID = 3

\* -------------------------------------------------------- NewGitRepository
\* src/basics/git.go, lines 18-54.  The file system is what the calls on it
\* answer: isDir, os.Stat, ini.Load and the value of the key.

\* the characters of the version strings
VersionChars == {"0", "1", "-", "+", "a"}

\* the strings up to a length, as sequences of characters
RECURSIVE Strings(_)
Strings(n) ==
    IF n = 0 THEN {<<>>}
    ELSE LET shorter == Strings(n - 1)
         IN shorter \cup {Append(str, c) : str \in {x \in shorter : Len(x) = n - 1},
                                          c \in VersionChars}

\* the value of a decimal digit
DigitVal(c) == IF c = "1" THEN 1 ELSE 0

IsDigit(c) == c \in {"0", "1"}

\* strconv.Atoi, the part after the sign: the digits read in base 10
RECURSIVE DecVal(_)
DecVal(str) ==
    IF str = <<>> THEN 0
    ELSE 10 * DecVal(SubSeq(str, 1, Len(str) - 1)) + DigitVal(str[Len(str)])

\* strconv.Atoi: the string without its sign
Unsigned(str) ==
    IF str # <<>> /\ str[1] \in {"+", "-"} THEN Tail(str) ELSE str

\* strconv.Atoi returns a nil error: an optional sign, then digits, one at
\* least
AtoiOk(str) ==
    /\ Unsigned(str) # <<>>
    /\ \A k \in 1 .. Len(Unsigned(str)) : IsDigit(Unsigned(str)[k])

\* strconv.Atoi: the integer returned with a nil error
AtoiVal(str) ==
    IF str # <<>> /\ str[1] = "-" THEN 0 - DecVal(Unsigned(str))
    ELSE DecVal(Unsigned(str))

\* a version check that only looks at the error of Atoi
UnsupportedOnError(str) == ~AtoiOk(str)

\* if err != nil || version != 0
Unsupported(str) == ~AtoiOk(str) \/ AtoiVal(str) # 0

\* NewGitRepository(path, force) is called
InitGit ==
    /\ gitForce \in BOOLEAN
    /\ gitDirIsDir \in BOOLEAN
    /\ configStat \in {"ok", "err"}
    /\ configLoads \in BOOLEAN
    /\ versionStr \in Strings(MaxVersionLen)
    /\ gitPc = "checkDir"
    /\ gitConf = "nil"
    /\ gitRet = NoCall
    /\ nilConfRead = FALSE
    /\ PoolIdle
    /\ LimiterIdle
    /\ AccountIdle
    /\ ShortenerIdle
    /\ ScraperIdle
    /\ TasksIdle
    /\ LibraryIdle
    /\ ServerIdle

\* if !(force || isDir(repo.GitDir))
GitCheckDir ==
    /\ gitPc = "checkDir"
    /\ IF ~(gitForce \/ gitDirIsDir)
       THEN /\ gitRet' = [op |-> "NewGitRepository", repo |-> "nil",
                          err |-> "not a Git repository"]
            /\ gitPc' = "returned"
       ELSE /\ gitPc' = "statConfig"
            /\ UNCHANGED gitRet
    /\ UNCHANGED <<gitForce, gitDirIsDir, configStat, configLoads,
                   versionStr, gitConf, nilConfRead, otherThanGit>>

\* the os.Stat of the config file, ini.Load and the else branch
GitReadConfig ==
    /\ gitPc = "statConfig"
    /\ IF configStat = "ok"
       THEN IF ~configLoads
            THEN /\ gitRet' = [op |-> "NewGitRepository", repo |-> "nil",
                               err |-> "failed to read config"]
                 /\ gitPc' = "returned"
                 /\ UNCHANGED gitConf
            ELSE /\ gitConf' = "cfg"
                 /\ gitPc' = "checkVersion"
                 /\ UNCHANGED gitRet
       ELSE IF ~gitForce
            THEN /\ gitRet' = [op |-> "NewGitRepository", repo |-> "nil",
                               err |-> "configuration file missing"]
                 /\ gitPc' = "returned"
                 /\ UNCHANGED gitConf
            ELSE /\ gitPc' = "checkVersion"
                 /\ UNCHANGED <<gitConf, gitRet>>
    /\ UNCHANGED <<gitForce, gitDirIsDir, configStat, configLoads,
                   versionStr, nilConfRead, otherThanGit>>

\* if !force { ... }: the read of repo.Conf and the version check; then
\* return repo, nil
GitCheckVersion ==
    /\ gitPc = "checkVersion"
    /\ IF ~gitForce
       THEN /\ nilConfRead' = (nilConfRead \/ gitConf = "nil")
            /\ gitRet' = IF Unsupported(versionStr)
                         THEN [op |-> "NewGitRepository", repo |-> "nil",
                               err |-> "unsupported repositoryformatversion"]
                         ELSE [op |-> "NewGitRepository", repo |-> "repo",
                               err |-> "nil"]
       ELSE /\ gitRet' = [op |-> "NewGitRepository", repo |-> "repo",
                          err |-> "nil"]
            /\ UNCHANGED nilConfRead
    /\ gitPc' = "returned"
    /\ UNCHANGED <<gitForce, gitDirIsDir, configStat, configLoads,
                   versionStr, gitConf, otherThanGit>>

NextGit ==
    \/ GitCheckDir
    \/ GitReadConfig
    \/ GitCheckVersion

SpecGit == InitGit /\ [][NextGit]_vars

\* ------------------------------------------- NewGitRepository properties

\* the version string is an optional sign and then zeros, one at least
WritesZero ==
    LET digits == IF versionStr # <<>> /\ versionStr[1] \in {"+", "-"}
                  THEN SubSeq(versionStr, 2, Len(versionStr))
                  ELSE versionStr
    IN /\ digits # <<>>
       /\ \A k \in 1 .. Len(digits) : digits[k] = "0"

\* C30: NewGitRepository(path, false) returns a repository and a nil error
\* exactly when path/.git is a directory, the config file exists and loads,
\* and core.repositoryformatversion parses to the integer 0; otherwise it
\* returns a nil repository and an error.  repo.Conf is never read while nil.
C30_NewGitRepository ==
    /\ ~nilConfRead
    /\ (gitPc = "returned" /\ ~gitForce) =>
          /\ gitRet.err = "nil" <=>
                (/\ gitDirIsDir
                 /\ configStat = "ok"
                 /\ configLoads
                 /\ WritesZero)
          /\ gitRet.err = "nil" => (gitRet.repo = "repo" /\ gitConf = "cfg")
          /\ gitRet.err # "nil" => gitRet.repo = "nil"

\* C30 witness: without force, a repository whose version is written with
\* two characters is opened
C30_Witness ==
    /\ gitPc = "returned"
    /\ ~gitForce
    /\ gitRet.err = "nil"
    /\ gitRet.repo = "repo"
    /\ Len(versionStr) = 2

=============================================================================
